---- MODULE Spec2Model ----
(***************************************************************************)
(* TextRank summarizer of meeting-summarizer (nlp/sentenceSegment,         *)
(* nlp/stopwords, nlp/textrank).                                           *)
(*                                                                         *)
(* A text is a sequence of one-character strings.  Floating point values   *)
(* that the code computes with Math.log and Math.sqrt (IDF, magnitudes,    *)
(* cosine similarity) are kept as fixed-point integers; everything derived *)
(* from them by + * / (transition matrix, PageRank scores, ratios) is      *)
(* an exact rational <<numerator, denominator>>.                           *)
(***************************************************************************)
EXTENDS Integers, Sequences, FiniteSets, TLC

\* ------------------------------------------------------------------ bounds

\* Number of text units an input text is made of.
MaxUnits == 3
\* Largest number of milliseconds that pass between two reads of Date.now().
MaxElapsed == 1
\* Largest number of sentences of a text handed to summarizeLongText.
MaxLongUnits == 9
\* Number of letters after the capital of the one word of a long sentence.
LongWordLength == 997
\* Largest number of sentences handed to selectSentences on its own.
MaxCandidates == 3
\* Largest number of calls made on one WhisperAPI instance.
MaxApiCalls == 4

\* ------------------------------------------------------------------- state

VARIABLES
  text,        \* the text argument
  options,     \* the options argument
  intl,        \* isSegmenterSupported() of the runtime
  sizeLimit,   \* the maxChunkSize argument of chunkBySentences
  pc,          \* where the running call of summarize is
  language,    \* const language
  opts,        \* const opts
  sentences,   \* const sentences
  matrix,      \* the matrix parameter of pagerank
  scores,      \* let scores of pagerank
  newScores,   \* const newScores of pagerank
  iter,        \* let iter of pagerank
  selection,   \* what selectSentences returned
  outcome,     \* how the running call ended: a SummaryResult or an exception
  calls,       \* number of calls begun
  previous,    \* outcome of the call before the running one
  chunks,          \* const chunks of summarizeLongText
  currentChunk,    \* let currentChunk of summarizeLongText
  cursor,          \* position of its for-of loop in sentences
  chunkSummaries,  \* the results of chunks.map(...) computed so far
  worker,          \* WhisperAPI.worker: 0 for null, else the number of the Worker
  isInitialized,   \* WhisperAPI.isInitialized
  isTranscribing,  \* WhisperAPI.isTranscribing
  initPromise,     \* WhisperAPI.initPromise: "null", "pending" or "resolved"
  requests,        \* the calls of sendMessageToWorker: listener, promise, timer
  toWorker,        \* messages posted to the worker and not yet handled
  toMain,          \* messages posted by the worker and not yet dispatched
  apiLog           \* the calls made on the instance, each with its outcome

vars == <<text, options, intl, sizeLimit, pc, language, opts, sentences, matrix,
          scores, newScores, iter, selection, outcome, calls, previous,
          chunks, currentChunk, cursor, chunkSummaries,
          worker, isInitialized, isTranscribing, initPromise, requests, toWorker,
          toMain, apiLog>>

\* The state of the summarizer.
summarizer == <<text, options, intl, sizeLimit, pc, language, opts, sentences,
                matrix, scores, newScores, iter, selection, outcome, calls,
                previous, chunks, currentChunk, cursor, chunkSummaries>>

\* The state of a WhisperAPI instance and of its worker.
whisper == <<worker, isInitialized, isTranscribing, initPromise, requests, toWorker,
             toMain, apiLog>>

\* A WhisperAPI instance as its constructor leaves it.
FreshWhisper ==
  /\ worker = 0
  /\ isInitialized = FALSE
  /\ isTranscribing = FALSE
  /\ initPromise = "null"
  /\ requests = <<>>
  /\ toWorker = <<>>
  /\ toMain = <<>>
  /\ apiLog = <<>>

\* The locals of summarizeLongText; in a call of summarizeLongText language
\* and sentences are its constants of these names.
chunking == <<chunks, currentChunk, cursor, chunkSummaries>>

inputs == <<text, options, intl, sizeLimit>>
locals == <<language, opts, sentences, matrix, scores, newScores, iter, selection>>

\* ------------------------------------------------------- characters, strings

\* An options object is a function from the names of the properties the caller
\* supplied to their values; a property that is not in its domain is undefined.
NoOptions == [k \in {} |-> 0]
Has(o, k) == k \in DOMAIN o
\* o[k] === true
IsTrue(o, k) == Has(o, k) /\ o[k] = TRUE
\* o[k] || d for a number: undefined and 0 are falsy
OrDefault(o, k, d) == IF Has(o, k) /\ o[k] # 0 THEN o[k] ELSE d

Whitespace == {" "}
Terminators == {".", "!", "?"}
Punctuation == Terminators \cup {",", ";", ":", "\"", "'"}

IsWhitespace(c) == c \in Whitespace
IsTerminator(c) == c \in Terminators
\* \w of the regular expressions: letters, digits and underscore.
IsWordChar(c) == c \notin Whitespace /\ c \notin Punctuation

Uppers == <<"A","B","C","D","E","F","G","H","I","J","K","L","M",
            "N","O","P","Q","R","S","T","U","V","W","X","Y","Z">>
Lowers == <<"a","b","c","d","e","f","g","h","i","j","k","l","m",
            "n","o","p","q","r","s","t","u","v","w","x","y","z">>
UpperCase == {Uppers[i] : i \in DOMAIN Uppers}
UpperToLower == [c \in UpperCase |-> Lowers[CHOOSE i \in DOMAIN Uppers : Uppers[i] = c]]
LowerOf(c) == IF c \in UpperCase THEN UpperToLower[c] ELSE c

\* String.prototype.toLowerCase
ToLowerCase(s) == [i \in DOMAIN s |-> LowerOf(s[i])]

RECURSIVE TrimLeft(_)
TrimLeft(s) ==
  IF s # <<>> /\ IsWhitespace(Head(s)) THEN TrimLeft(Tail(s)) ELSE s

RECURSIVE TrimRight(_)
TrimRight(s) ==
  IF s # <<>> /\ IsWhitespace(s[Len(s)])
    THEN TrimRight(SubSeq(s, 1, Len(s) - 1))
    ELSE s

\* String.prototype.trim
Trim(s) == TrimRight(TrimLeft(s))

\* First index k of lo..hi with (s[k] \in class) = inside, hi + 1 if there is
\* none; found by halving, so that a long run costs no deep recursion.
RECURSIVE FirstIndex(_, _, _, _, _)
FirstIndex(s, lo, hi, class, inside) ==
  IF lo > hi THEN hi + 1
  ELSE IF lo = hi THEN (IF (s[lo] \in class) = inside THEN lo ELSE hi + 1)
  ELSE LET mid == (lo + hi) \div 2
           left == FirstIndex(s, lo, mid, class, inside)
       IN IF left <= mid THEN left ELSE FirstIndex(s, mid + 1, hi, class, inside)

\* First index >= i of s whose character is not in the class, Len(s)+1 if none.
SkipWhile(s, i, class) == FirstIndex(s, i, Len(s), class, FALSE)

\* First index >= i of s whose character is in the class, Len(s)+1 if none.
Find(s, i, class) == FirstIndex(s, i, Len(s), class, TRUE)

\* s.split(/\s+/): the pieces between whitespace runs, empty pieces included.
RECURSIVE SplitWsFrom(_, _, _)
SplitWsFrom(s, i, acc) ==
  LET j == Find(s, i, Whitespace)
      piece == SubSeq(s, i, j - 1)
  IN IF j > Len(s) THEN Append(acc, piece)
     ELSE SplitWsFrom(s, SkipWhile(s, j, Whitespace), Append(acc, piece))

SplitWhitespace(s) == SplitWsFrom(s, 1, <<>>)

\* s1 + s2 + ... with sep between: Array.prototype.join
RECURSIVE Join(_, _)
Join(parts, sep) ==
  IF parts = <<>> THEN <<>>
  ELSE IF Len(parts) = 1 THEN parts[1]
  ELSE parts[1] \o sep \o Join(Tail(parts), sep)

Range(s) == {s[i] : i \in DOMAIN s}

\* --------------------------------------------------- nlp/sentenceSegment.ts

\* SENTENCE_PATTERNS.en = /[.!?]+(?:\s+|$)/g used by text.split: a run of
\* terminators followed by a whitespace run or by the end of the text is a
\* separator; a run followed by any other character is part of the sentence.
\* The piece being read starts at index start; the scan is at index i.
RECURSIVE SplitPatternFrom(_, _, _, _)
SplitPatternFrom(s, i, start, acc) ==
  LET t == Find(s, i, Terminators)
      r == SkipWhile(s, t, Terminators)
      w == SkipWhile(s, r, Whitespace)
  IN IF t > Len(s) THEN Append(acc, SubSeq(s, start, Len(s)))
     ELSE IF r > Len(s)
       THEN Append(Append(acc, SubSeq(s, start, t - 1)), <<>>)
     ELSE IF IsWhitespace(s[r])
       THEN SplitPatternFrom(s, w, w, Append(acc, SubSeq(s, start, t - 1)))
     ELSE SplitPatternFrom(s, r, start, acc)

SplitPattern(s) == SplitPatternFrom(s, 1, 1, <<>>)

\* ABBREVIATIONS.en
ABBREVIATIONS ==
  { <<"d","r">>, <<"m","r">>, <<"m","r","s">>, <<"m","s">>, <<"p","r","o","f">>,
    <<"v","s">>, <<"e","t","c">>, <<"i","n","c">>, <<"l","t","d">>,
    <<"c","o","r","p">>, <<"c","o">>, <<"j","r">>, <<"s","r">>, <<"s","t">>,
    <<"a","v","e">>, <<"b","l","v","d">>, <<"d","e","p","t">>,
    <<"g","o","v","t">>, <<"m","i","n">>, <<"m","a","x">>,
    <<"a","p","p","r","o","x">>, <<"e","s","t">>, <<"r","e","f">>,
    <<"f","i","g">>, <<"n","o">>, <<"v","o","l">>, <<"p","p">>, <<"c","h">>,
    <<"s","e","c">> }

\* words[words.length - 1]?.toLowerCase().replace(/\.$/, '')
LastWord(sentence) ==
  LET words == SplitWhitespace(sentence)
      w == ToLowerCase(words[Len(words)])
  IN IF w # <<>> /\ w[Len(w)] = "." THEN SubSeq(w, 1, Len(w) - 1) ELSE w

\* The loop of segmentWithRegex over rawSentences, from index i.
RECURSIVE RegexLoop(_, _, _)
RegexLoop(raw, i, acc) ==
  IF i > Len(raw) THEN acc
  ELSE LET sentence == Trim(raw[i])
       IN IF sentence = <<>> THEN RegexLoop(raw, i + 1, acc)
          ELSE LET lastWord == LastWord(sentence)
                   next == IF i < Len(raw) THEN Trim(raw[i + 1]) ELSE <<>>
                   merge == /\ lastWord # <<>>
                            /\ lastWord \in ABBREVIATIONS
                            /\ i < Len(raw)
                            /\ next # <<>>
                            /\ LowerOf(next[1]) = next[1]
               IN IF merge
                    THEN RegexLoop(raw, i + 2, Append(acc, sentence \o <<".", " ">> \o next))
                    ELSE RegexLoop(raw, i + 1, Append(acc, sentence))

\* As segmentWithRegex, scanning with the shared /g pattern object, whose
\* lastIndex is left behind by the call before: the first sentence is missed.
segmentWithRegexStateful(txt) ==
  LET all == RegexLoop(SplitPattern(txt), 1, <<>>)
  IN IF calls >= 1 /\ all # <<>> THEN Tail(all) ELSE all

segmentWithRegex(txt) == RegexLoop(SplitPattern(txt), 1, <<>>)

\* Intl.Segmenter(locale, {granularity: 'sentence'}): the segments cover the
\* text; a segment ends after a terminator run and the whitespace after it,
\* unless the run ends in "." and a lower-case letter follows (UAX #29 SB8),
\* or no whitespace follows the run (SB6, SB7, SB11 need Sp or the end).
\* The segment being read starts at index start; the scan is at index i.
RECURSIVE IntlSegmentsFrom(_, _, _, _)
IntlSegmentsFrom(s, i, start, acc) ==
  LET t == Find(s, i, Terminators)
      r == SkipWhile(s, t, Terminators)
      w == SkipWhile(s, r, Whitespace)
      continues == \/ (w = r /\ r <= Len(s))
                   \/ /\ w <= Len(s)
                      /\ s[r - 1] = "."
                      /\ IsWordChar(s[w])
                      /\ s[w] \notin UpperCase
  IN IF t > Len(s)
       THEN (IF start > Len(s) THEN acc ELSE Append(acc, SubSeq(s, start, Len(s))))
     ELSE IF continues
       THEN IntlSegmentsFrom(s, w, start, acc)
     ELSE IntlSegmentsFrom(s, w, w, Append(acc, SubSeq(s, start, w - 1)))

NonEmpty(s) == s # <<>>
TrimAll(ss) == [i \in DOMAIN ss |-> Trim(ss[i])]

\* As segmentWithIntl, with one segment iterator kept at module level and
\* shared by all calls: a call after the first finds it exhausted.
segmentWithIntlShared(txt) ==
  IF calls >= 1 THEN <<>>
  ELSE SelectSeq(TrimAll(IntlSegmentsFrom(txt, 1, 1, <<>>)), NonEmpty)

segmentWithIntl(txt) ==
  SelectSeq(TrimAll(IntlSegmentsFrom(txt, 1, 1, <<>>)), NonEmpty)

\* cleaned.replace(/\s+/g, ' ')
RECURSIVE CollapseWhitespace(_, _)
CollapseWhitespace(s, i) ==
  IF i > Len(s) THEN <<>>
  ELSE IF IsWhitespace(s[i])
    THEN <<" ">> \o CollapseWhitespace(s, SkipWhile(s, i, Whitespace))
    ELSE LET j == Find(s, i, Whitespace)
         IN SubSeq(s, i, j - 1) \o CollapseWhitespace(s, j)

\* cleaned.replace(/[.!?]+$/, match => match[0])
RECURSIVE TerminalRunStart(_, _)
TerminalRunStart(s, i) ==
  IF i >= 1 /\ IsTerminator(s[i]) THEN TerminalRunStart(s, i - 1) ELSE i + 1

CollapseTerminal(s) ==
  LET b == TerminalRunStart(s, Len(s))
  IN IF b > Len(s) THEN s ELSE SubSeq(s, 1, b)

\* cleaned.replace(/["']([^"']*?)["']/g, '"$1"')
Quotes == {"\"", "'"}
IsQuote(c) == c \in Quotes
RECURSIVE NormalizeQuotes(_, _)
NormalizeQuotes(s, i) ==
  IF i > Len(s) THEN <<>>
  ELSE IF IsQuote(s[i])
    THEN LET j == Find(s, i + 1, Quotes)
         IN IF j <= Len(s)
              THEN <<"\"">> \o SubSeq(s, i + 1, j - 1) \o <<"\"">> \o NormalizeQuotes(s, j + 1)
              ELSE SubSeq(s, i, Len(s))
    ELSE LET j == Find(s, i, Quotes)
         IN SubSeq(s, i, j - 1) \o NormalizeQuotes(s, j)

\* cleaned.replace(/\s*([.!?])\s*/g, '$1 '): every terminator, with the
\* whitespace around it, becomes the terminator and one space.
RECURSIVE SpaceAfterTerminators(_, _)
SpaceAfterTerminators(s, i) ==
  IF i > Len(s) THEN <<>>
  ELSE LET w == SkipWhile(s, i, Whitespace)
           j == Find(s, i, Whitespace \cup Terminators)
       IN IF w <= Len(s) /\ IsTerminator(s[w])
            THEN <<s[w], " ">> \o SpaceAfterTerminators(s, SkipWhile(s, w + 1, Whitespace))
          ELSE IF j > i
            THEN SubSeq(s, i, j - 1) \o SpaceAfterTerminators(s, j)
          ELSE <<s[i]>> \o SpaceAfterTerminators(s, i + 1)

cleanSentence(sentence, segOptions) ==
  LET cleaned == Trim(sentence)
  IN IF IsTrue(segOptions, "cleanWhitespace")
       THEN SpaceAfterTerminators(
              NormalizeQuotes(CollapseTerminal(CollapseWhitespace(cleaned, 1)), 1), 1)
       ELSE cleaned

DefaultMinLength == 5
DefaultMaxLength == 1000

filterSentences(sents, segOptions) ==
  LET minLength == OrDefault(segOptions, "minLength", DefaultMinLength)
      maxLength == OrDefault(segOptions, "maxLength", DefaultMaxLength)
      Keep(sentence) == LET length == Len(Trim(sentence))
                        IN length >= minLength /\ length <= maxLength
  IN SelectSeq(sents, Keep)

\* segment(text, options); intl is isSegmenterSupported() of the runtime.
segment(txt, segOptions, useIntl) ==
  IF txt = <<>> \/ Len(Trim(txt)) = 0 THEN <<>>
  ELSE LET raw == IF useIntl THEN segmentWithIntl(txt) ELSE segmentWithRegex(txt)
           cleaned == IF IsTrue(segOptions, "cleanWhitespace")
                        THEN [i \in DOMAIN raw |-> cleanSentence(raw[i], segOptions)]
                        ELSE raw
       IN filterSentences(cleaned, segOptions)

\* The loop of chunkBySentences over sentences from index k, and the chunk
\* pushed after it.
RECURSIVE ChunkLoop(_, _, _, _, _)
ChunkLoop(sents, k, chs, cur, size) ==
  IF k > Len(sents)
    THEN (IF cur # <<>> THEN Append(chs, Trim(cur)) ELSE chs)
  ELSE LET sentence == sents[k]
           testChunk == IF cur # <<>> THEN cur \o <<" ">> \o sentence ELSE sentence
       IN IF Len(testChunk) <= size
            THEN ChunkLoop(sents, k + 1, chs, testChunk, size)
          ELSE IF cur # <<>>
            THEN ChunkLoop(sents, k + 1, Append(chs, Trim(cur)), sentence, size)
          ELSE ChunkLoop(sents, k + 1, Append(chs, sentence), cur, size)

\* chunkBySentences(text, maxChunkSize, options)
chunkBySentences(txt, size, segOptions, useIntl) ==
  ChunkLoop(segment(txt, segOptions, useIntl), 1, <<>>, <<>>, size)

\* ------------------------------------------------------------- rationals

RECURSIVE GCD(_, _)
GCD(a, b) == IF b = 0 THEN a ELSE GCD(b, a % b)

Abs(x) == IF x < 0 THEN -x ELSE x

\* The rational n/d in lowest terms with a positive denominator.
Rat(n, d) ==
  LET g == GCD(Abs(n), Abs(d))
      sign == IF d < 0 THEN -1 ELSE 1
  IN <<sign * (n \div g), sign * (d \div g)>>

Zero == <<0, 1>>
One == <<1, 1>>

RAdd(a, b) ==
  LET l == (a[2] \div GCD(a[2], b[2])) * b[2]
  IN Rat(a[1] * (l \div a[2]) + b[1] * (l \div b[2]), l)

RNeg(a) == <<-a[1], a[2]>>
RSub(a, b) == RAdd(a, RNeg(b))
RAbs(a) == <<Abs(a[1]), a[2]>>

RMul(a, b) ==
  LET x == Rat(a[1], b[2])
      y == Rat(b[1], a[2])
  IN <<x[1] * y[1], x[2] * y[2]>>

RLess(a, b) ==
  LET l == (a[2] \div GCD(a[2], b[2])) * b[2]
  IN a[1] * (l \div a[2]) < b[1] * (l \div b[2])

RMax(a, b) == IF RLess(a, b) THEN b ELSE a

RECURSIVE RSum(_)
RSum(s) == IF s = <<>> THEN Zero ELSE RAdd(Head(s), RSum(Tail(s)))

\* floor(10^digits * p / q) for 0 <= p < q, by long division.
RECURSIVE Pow10(_)
Pow10(k) == IF k = 0 THEN 1 ELSE 10 * Pow10(k - 1)

RECURSIVE Shifted(_, _, _)
Shifted(p, q, digits) ==
  IF digits = 0 THEN 0
  ELSE ((10 * p) \div q) * Pow10(digits - 1) + Shifted((10 * p) % q, q, digits - 1)

\* a < micro * 1e-6 for a rational a >= 0 and an integer micro
LessThanMicro(a, micro) ==
  a[1] \div a[2] < micro \div 1000000
  \/ /\ a[1] \div a[2] = micro \div 1000000
     /\ Shifted(a[1] % a[2], a[2], 6) < micro % 1000000

\* floor(sqrt(x)) by bisection on lo..hi
RECURSIVE IsqrtIn(_, _, _)
IsqrtIn(x, lo, hi) ==
  IF lo >= hi THEN lo
  ELSE LET mid == (lo + hi + 1) \div 2
       IN IF mid * mid <= x THEN IsqrtIn(x, mid, hi) ELSE IsqrtIn(x, lo, mid - 1)

Isqrt(x) == IsqrtIn(x, 0, 46340)

\* -------------------------------------------------------- nlp/stopwords.ts

\* STOP_EN, STOP_ES, STOP_FR: the entries that a text of the model can hold
\* (the words of Units below) and a sample of the others.
STOP_EN ==
  { <<"t","h","e">>, <<"a","n","d">>, <<"t","o">>, <<"o","f">>, <<"i","n">>,
    <<"i","s">>, <<"i","t">>, <<"n","o">>, <<"g","o">>, <<"d","o">>,
    <<"i","f">>, <<"h","e">>, <<"o","k">> }
STOP_ES ==
  { <<"d","e">>, <<"l","a">>, <<"e","l">>, <<"e","n">>, <<"l","o">>,
    <<"l","e">>, <<"m","e">>, <<"n","o">>, <<"n","i">>, <<"m","i">> }
STOP_FR ==
  { <<"l","e">>, <<"d","e">>, <<"e","t">>, <<"i","l">>, <<"e","n">>,
    <<"c","e">>, <<"n","e">>, <<"s","e">> }

\* LANGUAGE_INDICATORS (the entries written in ASCII)
INDICATORS_EN ==
  { <<"t","h","e">>, <<"a","n","d">>, <<"i","s">>, <<"a","r","e">>,
    <<"w","a","s">>, <<"w","e","r","e">>, <<"h","a","v","e">>,
    <<"h","a","s">>, <<"h","a","d">>, <<"w","i","l","l">>,
    <<"w","o","u","l","d">>, <<"c","o","u","l","d">>,
    <<"s","h","o","u","l","d">> }
INDICATORS_ES ==
  { <<"e","l">>, <<"l","a">>, <<"l","o","s">>, <<"l","a","s">>, <<"d","e">>,
    <<"d","e","l">>, <<"q","u","e">>, <<"e","n">>, <<"e","s">>,
    <<"s","o","n">>, <<"t","i","e","n","e">>, <<"t","i","e","n","e","n">> }
INDICATORS_FR ==
  { <<"l","e">>, <<"l","a">>, <<"l","e","s">>, <<"d","e">>, <<"d","u">>,
    <<"d","e","s">>, <<"q","u","e">>, <<"q","u","i">>, <<"e","s","t">>,
    <<"s","o","n","t">>, <<"a","v","o","i","r">>, <<"a","v","e","c">>,
    <<"d","a","n","s">> }

getStopwords(lang) ==
  CASE lang = "en" -> STOP_EN
    [] lang = "es" -> STOP_ES
    [] lang = "fr" -> STOP_FR
    [] OTHER -> STOP_EN

\* Number of the first n entries of words that are in the set.
RECURSIVE CountIn(_, _, _)
CountIn(words, n, set) ==
  IF n = 0 THEN 0
  ELSE CountIn(words, n - 1, set) + (IF words[n] \in set THEN 1 ELSE 0)

Min(a, b) == IF a < b THEN a ELSE b
Max(a, b) == IF a > b THEN a ELSE b

detectLanguage(txt) ==
  IF txt = <<>> \/ Len(txt) < 50 THEN "en"
  ELSE LET words == SplitWhitespace(ToLowerCase(txt))
           n == Min(Len(words), 100)
           en == CountIn(words, n, INDICATORS_EN)
           es == CountIn(words, n, INDICATORS_ES)
           fr == CountIn(words, n, INDICATORS_FR)
           maxScore == Max(en, Max(es, fr))
       IN IF maxScore = 0 THEN "en"
          ELSE IF es = maxScore THEN "es"
          ELSE IF fr = maxScore THEN "fr"
          ELSE "en"

\* word.toLowerCase().replace(/[^\w]/g, '')
OnlyWordChars(word) == SelectSeq(ToLowerCase(word), IsWordChar)

removeStopwords(words, lang) ==
  LET stopwords == getStopwords(lang)
      Keep(word) == LET cleaned == OnlyWordChars(word)
                    IN Len(cleaned) > 1 /\ cleaned \notin stopwords
  IN SelectSeq(words, Keep)

\* ---------------------------------------------------------- nlp/textrank.ts

\* text.toLowerCase().replace(/[^\w\s]/g, ' ').split(/\s+/).filter(nonempty)
tokenize(sentence, lang) ==
  LET lowered == ToLowerCase(sentence)
      spaced == [i \in DOMAIN lowered |->
                   IF IsWordChar(lowered[i]) \/ IsWhitespace(lowered[i])
                     THEN lowered[i] ELSE " "]
      words == SelectSeq(SplitWhitespace(spaced), NonEmpty)
  IN removeStopwords(words, lang)

\* Number of occurrences of term in tokens.
Occurrences(tokens, term) == Cardinality({i \in DOMAIN tokens : tokens[i] = term})

\* Math.log(totalDocuments / count) in tenths, rounded to the nearest tenth.
LogTenths(totalDocuments, count) ==
  LET g == GCD(totalDocuments, count)
      ratio == <<totalDocuments \div g, count \div g>>
  IN CASE ratio = <<1, 1>> -> 0
       [] ratio = <<2, 1>> -> 7
       [] ratio = <<3, 1>> -> 11
       [] ratio = <<3, 2>> -> 4
       [] ratio = <<4, 1>> -> 14
       [] ratio = <<4, 3>> -> 3
       [] ratio = <<5, 1>> -> 16
       [] ratio = <<5, 2>> -> 9
       [] ratio = <<5, 3>> -> 5
       [] ratio = <<5, 4>> -> 2
       [] ratio = <<6, 1>> -> 18
       [] ratio = <<6, 5>> -> 2
       [] ratio = <<7, 1>> -> 19
       [] ratio = <<7, 2>> -> 13
       [] ratio = <<7, 3>> -> 8
       [] ratio = <<7, 4>> -> 6
       [] ratio = <<7, 5>> -> 3
       [] ratio = <<7, 6>> -> 2
       [] ratio = <<8, 1>> -> 21
       [] ratio = <<8, 3>> -> 10
       [] ratio = <<8, 5>> -> 5
       [] ratio = <<8, 7>> -> 1
       [] ratio = <<9, 1>> -> 22
       [] ratio = <<9, 2>> -> 15
       [] ratio = <<9, 4>> -> 8
       [] ratio = <<9, 5>> -> 6
       [] ratio = <<9, 7>> -> 3
       [] ratio = <<9, 8>> -> 1

\* idf[term] for every term of the sentences, in tenths
calculateIDF(sentenceTokens) ==
  LET totalDocuments == Len(sentenceTokens)
      terms == UNION {Range(sentenceTokens[i]) : i \in DOMAIN sentenceTokens}
      termDocumentCount(term) ==
        Cardinality({i \in DOMAIN sentenceTokens : term \in Range(sentenceTokens[i])})
  IN [term \in terms |-> LogTenths(totalDocuments, termDocumentCount(term))]

\* The TF-IDF vector of a sentence.  tf[term] = count / totalTerms and
\* idf[term] is in tenths, so terms[term] holds the numerator of the weight
\* over 10 * totalTerms; magnitude is kept squared, over the same denominator
\* squared.  cosineSimilarity divides the common denominators out.
createSentenceVector(tokens, idf) ==
  LET terms == [term \in Range(tokens) |-> Occurrences(tokens, term) * idf[term]]
      Squares(set) ==
        LET RECURSIVE Sq(_)
            Sq(S) == IF S = {} THEN 0
                     ELSE LET t == CHOOSE t \in S : TRUE
                          IN terms[t] * terms[t] + Sq(S \ {t})
        IN Sq(set)
  IN [terms |-> terms, magnitudeSq |-> Squares(DOMAIN terms)]

\* dotProduct over the terms of both vectors
DotProduct(vector1, vector2) ==
  LET common == DOMAIN vector1.terms \cap DOMAIN vector2.terms
      RECURSIVE Dot(_)
      Dot(S) == IF S = {} THEN 0
                ELSE LET t == CHOOSE t \in S : TRUE
                     IN vector1.terms[t] * vector2.terms[t] + Dot(S \ {t})
  IN Dot(common)

\* cosineSimilarity(vector1, vector2) > threshold, threshold in tenths
\* (dot / (m1 * m2) > th / 10, squared: both sides are >= 0)
SimilarityAbove(vector1, vector2, thresholdTenths) ==
  LET dot == DotProduct(vector1, vector2)
  IN /\ vector1.magnitudeSq # 0
     /\ vector2.magnitudeSq # 0
     /\ 100 * dot * dot > thresholdTenths * thresholdTenths
                            * vector1.magnitudeSq * vector2.magnitudeSq

\* cosineSimilarity(vector1, vector2) in tenths, rounded down
cosineSimilarity(vector1, vector2) ==
  IF vector1.magnitudeSq = 0 \/ vector2.magnitudeSq = 0 THEN 0
  ELSE LET dot == DotProduct(vector1, vector2)
       IN Isqrt((100 * dot * dot) \div (vector1.magnitudeSq * vector2.magnitudeSq))

\* As buildSimilarityMatrix, without the test i !== j.
buildSimilarityMatrixWithDiagonal(vectors, thresholdTenths) ==
  LET n == Len(vectors)
  IN [i \in 1..n |-> [j \in 1..n |->
        IF SimilarityAbove(vectors[i], vectors[j], thresholdTenths)
          THEN cosineSimilarity(vectors[i], vectors[j])
          ELSE 0]]

\* buildSimilarityMatrix(vectors, 0.1): threshold in tenths
buildSimilarityMatrix(vectors, thresholdTenths) ==
  LET n == Len(vectors)
  IN [i \in 1..n |-> [j \in 1..n |->
        IF i # j /\ SimilarityAbove(vectors[i], vectors[j], thresholdTenths)
          THEN cosineSimilarity(vectors[i], vectors[j])
          ELSE 0]]

RECURSIVE SumInts(_)
SumInts(s) == IF s = <<>> THEN 0 ELSE Head(s) + SumInts(Tail(s))

\* As normalizeMatrix, without the uniform row for a sentence with no neighbour.
normalizeMatrixNoDangling(m) ==
  LET n == Len(m)
  IN [i \in 1..n |->
        LET rowSum == SumInts(m[i])
        IN IF rowSum > 0
             THEN [j \in 1..n |-> Rat(m[i][j], rowSum)]
             ELSE [j \in 1..n |-> Zero]]

\* As normalizeMatrix, dividing a row by the number of its entries.
normalizeMatrixByCount(m) ==
  LET n == Len(m)
  IN [i \in 1..n |->
        LET rowSum == SumInts(m[i])
        IN IF rowSum > 0
             THEN [j \in 1..n |-> Rat(m[i][j], 10 * n)]
             ELSE [j \in 1..n |-> Rat(1, n)]]

normalizeMatrix(mat) ==
  LET n == Len(mat)
  IN [i \in 1..n |->
        LET rowSum == SumInts(mat[i])
        IN IF rowSum > 0
             THEN [j \in 1..n |-> Rat(mat[i][j], rowSum)]
             ELSE [j \in 1..n |-> Rat(1, n)]]

\* newScores of one pass of the loop of pagerank; damping in hundredths
NewScores(mat, sc, dampingHundredths) ==
  LET n == Len(mat)
      d == Rat(dampingHundredths, 100)
      base == RMul(RSub(One, d), Rat(1, n))
      RECURSIVE Inflow(_, _)
      Inflow(i, j) ==
        IF j = 0 THEN base
        ELSE RAdd(Inflow(i, j - 1), RMul(d, RMul(sc[j], mat[j][i])))
  IN [i \in 1..n |-> Inflow(i, n)]

\* max over i of Math.abs(newScores[i] - scores[i])
MaxDiff(nsc, sc) ==
  LET RECURSIVE Upto(_)
      Upto(i) == IF i = 0 THEN Zero
                 ELSE RMax(Upto(i - 1), RAbs(RSub(nsc[i], sc[i])))
  IN Upto(Len(sc))

\* [scores, newScores] = [newScores, scores] with newScores declared const:
\* scores is assigned, the assignment to the constant throws.
SwapThrows == TRUE

\* calculateStringSimilarity(str1, str2) as a rational
calculateStringSimilarity(str1, str2) ==
  LET words1 == Range(SplitWhitespace(ToLowerCase(str1)))
      words2 == Range(SplitWhitespace(ToLowerCase(str2)))
  IN Rat(Cardinality(words1 \cap words2), Cardinality(words1 \cup words2))

\* scoredSentences.sort((a, b) => b.score - a.score): stable
RECURSIVE SortByScore(_)
SortByScore(items) ==
  IF items = <<>> THEN <<>>
  ELSE LET last == items[Len(items)]
           front == SortByScore(SubSeq(items, 1, Len(items) - 1))
           \* last goes after every item whose score is not smaller
           k == Cardinality({i \in DOMAIN front : ~RLess(front[i].score, last.score)})
       IN SubSeq(front, 1, k) \o <<last>> \o SubSeq(front, k + 1, Len(front))

\* As SortByIndex with the comparator turned round: b.index - a.index.
RECURSIVE SortByIndexDescending(_)
SortByIndexDescending(items) ==
  IF items = <<>> THEN <<>>
  ELSE LET last == items[Len(items)]
           front == SortByIndexDescending(SubSeq(items, 1, Len(items) - 1))
           k == Cardinality({i \in DOMAIN front : front[i].index >= last.index})
       IN SubSeq(front, 1, k) \o <<last>> \o SubSeq(front, k + 1, Len(front))

\* selected.sort((a, b) => a.index - b.index)
RECURSIVE SortByIndex(_)
SortByIndex(items) ==
  IF items = <<>> THEN <<>>
  ELSE LET last == items[Len(items)]
           front == SortByIndex(SubSeq(items, 1, Len(items) - 1))
           k == Cardinality({i \in DOMAIN front : front[i].index <= last.index})
       IN SubSeq(front, 1, k) \o <<last>> \o SubSeq(front, k + 1, Len(front))

\* similarity > threshold against an already selected sentence
IsDuplicate(candidate, selected, thresholdTenths) ==
  \E i \in DOMAIN selected :
    RLess(Rat(thresholdTenths, 10),
          calculateStringSimilarity(candidate.sentence, selected[i].sentence))

\* selected.length < maxSentences && totalChars + candidate.length <= maxChars
Admissible(candidate, selected, totalChars, maxSentences, maxChars) ==
  /\ Len(selected) < maxSentences
  /\ totalChars + candidate.length <= maxChars

\* As Greedy, with the sentence cap left out of the admission test and of the
\* break.
RECURSIVE GreedyNoCap(_, _, _, _, _, _, _, _)
GreedyNoCap(sorted, k, selected, totalChars, maxSentences, maxChars, dedup, thresholdTenths) ==
  IF k > Len(sorted) THEN selected
  ELSE LET candidate == sorted[k]
           admit == /\ ~(dedup /\ IsDuplicate(candidate, selected, thresholdTenths))
                    /\ totalChars + candidate.length <= maxChars
           selected2 == IF admit THEN Append(selected, candidate) ELSE selected
           total2 == IF admit THEN totalChars + candidate.length ELSE totalChars
       IN IF total2 >= maxChars
            THEN selected2
            ELSE GreedyNoCap(sorted, k + 1, selected2, total2, maxSentences, maxChars,
                             dedup, thresholdTenths)

\* As Greedy, leaving the loop at the first candidate that is not admitted.
RECURSIVE GreedyStopAtMisfit(_, _, _, _, _, _, _, _)
GreedyStopAtMisfit(sorted, k, selected, totalChars, maxSentences, maxChars, dedup, thresholdTenths) ==
  IF k > Len(sorted) THEN selected
  ELSE LET candidate == sorted[k]
           admit == /\ ~(dedup /\ IsDuplicate(candidate, selected, thresholdTenths))
                    /\ Admissible(candidate, selected, totalChars, maxSentences, maxChars)
       IN IF ~admit THEN selected
          ELSE GreedyStopAtMisfit(sorted, k + 1, Append(selected, candidate),
                                  totalChars + candidate.length, maxSentences, maxChars,
                                  dedup, thresholdTenths)

\* As Greedy, with the length of a candidate skipped as a duplicate added to
\* totalChars.
RECURSIVE GreedyChargingSkipped(_, _, _, _, _, _, _, _)
GreedyChargingSkipped(sorted, k, selected, totalChars, maxSentences, maxChars, dedup, thresholdTenths) ==
  IF k > Len(sorted) THEN selected
  ELSE LET candidate == sorted[k]
           duplicate == dedup /\ IsDuplicate(candidate, selected, thresholdTenths)
           admit == /\ ~duplicate
                    /\ Admissible(candidate, selected, totalChars, maxSentences, maxChars)
           selected2 == IF admit THEN Append(selected, candidate) ELSE selected
           total2 == IF admit \/ duplicate THEN totalChars + candidate.length
                     ELSE totalChars
       IN IF Len(selected2) >= maxSentences \/ total2 >= maxChars
            THEN selected2
            ELSE GreedyChargingSkipped(sorted, k + 1, selected2, total2, maxSentences,
                                       maxChars, dedup, thresholdTenths)

\* The loop over scoredSentences from position k, with its break.
RECURSIVE Greedy(_, _, _, _, _, _, _, _)
Greedy(sorted, k, selected, totalChars, maxSentences, maxChars, dedup, thresholdTenths) ==
  IF k > Len(sorted) THEN selected
  ELSE LET candidate == sorted[k]
           admit == /\ ~(dedup /\ IsDuplicate(candidate, selected, thresholdTenths))
                    /\ Admissible(candidate, selected, totalChars, maxSentences, maxChars)
           selected2 == IF admit THEN Append(selected, candidate) ELSE selected
           total2 == IF admit THEN totalChars + candidate.length ELSE totalChars
       IN IF Len(selected2) >= maxSentences \/ total2 >= maxChars
            THEN selected2
            ELSE Greedy(sorted, k + 1, selected2, total2, maxSentences, maxChars,
                        dedup, thresholdTenths)

\* Math.floor(n * 0.3)
ThirtyPercent(n) == (3 * n) \div 10

selectSentences(sents, sc, o) ==
  LET maxSentences == OrDefault(o, "maxSentences", Max(1, ThirtyPercent(Len(sents))))
      maxChars == OrDefault(o, "maxChars", 2000)
      scoredSentences == [i \in DOMAIN sents |->
                            [sentence |-> sents[i], score |-> sc[i],
                             index |-> i, length |-> Len(sents[i])]]
      dedup == IsTrue(o, "removeNearDuplicates")
      threshold == OrDefault(o, "similarityThreshold", 7)
      selected == SortByIndex(Greedy(SortByScore(scoredSentences), 1, <<>>, 0,
                                     maxSentences, maxChars, dedup, threshold))
  IN [selectedSentences |-> [i \in DOMAIN selected |-> selected[i].sentence],
      selectedIndices |-> [i \in DOMAIN selected |-> selected[i].index]]

\* formatAsBullets: the bullet, a space and the sentence, one per line
formatAsBullets(sents) ==
  Join([i \in DOMAIN sents |-> <<"*", " ">> \o sents[i]], <<"\n">>)

formatAsParagraph(sents) == Join(sents, <<" ">>)

\* text.length / 1000, floored
Thousands(txt) == Len(txt) \div 1000

\* options.locale || detectLanguage(text)
LanguageOf(txt, given) ==
  IF Has(given, "locale") THEN given["locale"] ELSE detectLanguage(txt)

\* const opts: Required<SummarizationOptions> = {...}
DefaultedOptions(txt, given) ==
  [ locale |-> LanguageOf(txt, given),
    maxSentences |-> OrDefault(given, "maxSentences", Max(1, Thousands(txt))),
    maxChars |-> OrDefault(given, "maxChars", 2000),
    dampingFactor |-> OrDefault(given, "dampingFactor", 85),
    maxIterations |-> OrDefault(given, "maxIterations", 100),
    convergenceThreshold |-> OrDefault(given, "convergenceThreshold", 1),
    similarityThreshold |-> OrDefault(given, "similarityThreshold", 7),
    removeNearDuplicates |-> IF Has(given, "removeNearDuplicates")
                               THEN given["removeNearDuplicates"] ELSE TRUE,
    segmentationOptions |-> IF Has(given, "segmentationOptions")
                              THEN given["segmentationOptions"] ELSE NoOptions ]

\* { locale: language, cleanWhitespace: true, minLength: 10, ...segmentationOptions }
SegmentationOptionsOf(o) ==
  o.segmentationOptions @@ ("cleanWhitespace" :> TRUE) @@ ("minLength" :> 10)
    @@ ("locale" :> o.locale)

\* As EmptyResult, with the ratio computed as on the general path: 0 / 0.
EmptyResultNaN(lang, elapsed) ==
  [ sentences |-> <<>>, summary |-> <<>>, originalSentenceCount |-> 0,
    summarySentenceCount |-> 0, compressionRatio |-> <<0, 0>>,
    processingTimeMs |-> elapsed, language |-> lang, scores |-> <<>> ]

\* The SummaryResult returned when no sentence is left
EmptyResult(lang, elapsed) ==
  [ sentences |-> <<>>, summary |-> <<>>, originalSentenceCount |-> 0,
    summarySentenceCount |-> 0, compressionRatio |-> Zero,
    processingTimeMs |-> elapsed, language |-> lang, scores |-> <<>> ]

\* The SummaryResult returned for one sentence
SingleResult(sents, lang, elapsed) ==
  [ sentences |-> sents, summary |-> sents[1], originalSentenceCount |-> 1,
    summarySentenceCount |-> 1, compressionRatio |-> One,
    processingTimeMs |-> elapsed, language |-> lang, scores |-> <<One>> ]

\* As RankedResult, with the ratio turned round: original / selected.
RankedResultInverted(sents, selectedSentences, sc, lang, elapsed) ==
  [ sentences |-> selectedSentences,
    summary |-> IF Len(selectedSentences) > 3
                  THEN formatAsBullets(selectedSentences)
                  ELSE formatAsParagraph(selectedSentences),
    originalSentenceCount |-> Len(sents),
    summarySentenceCount |-> Len(selectedSentences),
    compressionRatio |-> IF selectedSentences = <<>> THEN <<0, 0>>
                         ELSE Rat(Len(sents), Len(selectedSentences)),
    processingTimeMs |-> elapsed, language |-> lang, scores |-> sc ]

\* The SummaryResult returned after ranking and selection
RankedResult(sents, selectedSentences, sc, lang, elapsed) ==
  [ sentences |-> selectedSentences,
    summary |-> IF Len(selectedSentences) > 3
                  THEN formatAsBullets(selectedSentences)
                  ELSE formatAsParagraph(selectedSentences),
    originalSentenceCount |-> Len(sents),
    summarySentenceCount |-> Len(selectedSentences),
    compressionRatio |-> Rat(Len(selectedSentences), Len(sents)),
    processingTimeMs |-> elapsed, language |-> lang, scores |-> sc ]

\* The transition matrix summarize hands to pagerank
TransitionMatrix(sents, lang) ==
  LET sentenceTokens == [i \in DOMAIN sents |-> tokenize(sents[i], lang)]
      idf == calculateIDF(sentenceTokens)
      vectors == [i \in DOMAIN sents |-> createSentenceVector(sentenceTokens[i], idf)]
  IN normalizeMatrix(buildSimilarityMatrix(vectors, 1))

\* How a call ended: not yet, with a value, or with an exception.
None == [kind |-> "none"]
Returned(result) == [kind |-> "returned", result |-> result]
Threw(error) == [kind |-> "threw", error |-> error]

\* The loop of pagerank from pass it on, as one evaluation.
RECURSIVE PagerankLoop(_, _, _, _, _, _)
PagerankLoop(mat, sc, it, dampingHundredths, maxIterations, thresholdMicro) ==
  IF it >= maxIterations THEN Returned(sc)
  ELSE LET nsc == NewScores(mat, sc, dampingHundredths)
       IN IF LessThanMicro(MaxDiff(nsc, sc), thresholdMicro) THEN Returned(sc)
          ELSE IF SwapThrows THEN Threw("TypeError")
          ELSE PagerankLoop(mat, nsc, it + 1, dampingHundredths, maxIterations,
                            thresholdMicro)

\* pagerank(matrix, dampingFactor, maxIterations, convergenceThreshold)
pagerank(mat, dampingHundredths, maxIterations, thresholdMicro) ==
  LET n == Len(mat)
  IN IF n = 0 THEN Returned(<<>>)
     ELSE IF n = 1 THEN Returned(<<One>>)
     ELSE PagerankLoop(mat, [i \in 1..n |-> Rat(1, n)], 0, dampingHundredths,
                       maxIterations, thresholdMicro)

\* The element of a one-element set: a value computed once and used many times.
The(S) == CHOOSE x \in S : TRUE

\* summarize(text, options) from the segmented sentences on
Summarized(sents, o, elapsed) ==
  IF Len(sents) = 0 THEN Returned(EmptyResult(o.locale, elapsed))
  ELSE IF Len(sents) = 1 THEN Returned(SingleResult(sents, o.locale, elapsed))
  ELSE The({ The({ IF ranked.kind = "threw" THEN ranked
                   ELSE Returned(RankedResult(
                          sents,
                          selectSentences(sents, ranked.result, o).selectedSentences,
                          ranked.result, o.locale, elapsed)) :
                   ranked \in {pagerank(mat, o.dampingFactor, o.maxIterations,
                                        o.convergenceThreshold)} }) :
             mat \in {TransitionMatrix(sents, o.locale)} })

\* summarize(text, options) as one evaluation, for the callers of summarize;
\* elapsed is the time the call measures.
summarize(txt, given, useIntl, elapsed) ==
  The({ The({ Summarized(sents, o, elapsed) :
              sents \in {segment(txt, SegmentationOptionsOf(o), useIntl)} }) :
        o \in {DefaultedOptions(txt, given)} })

\* A result with the time its call measured
Timed(ended, elapsed) ==
  IF ended.kind = "returned"
    THEN Returned([ended.result EXCEPT !.processingTimeMs = elapsed])
    ELSE ended

\* --------------------------------------------------------- summarizeLongText

\* const maxChunkSize = 8000
maxChunkSize == 8000

\* { locale: language, cleanWhitespace: true }
LongSegmentationOptions(lang) == ("locale" :> lang) @@ ("cleanWhitespace" :> TRUE)

\* As AfterSentence, cutting a chunk off at maxChunkSize characters and
\* carrying the rest of the sentence into the next chunk.
AfterSentenceCutting(chs, cur, sentence) ==
  LET testChunk == IF cur # <<>> THEN cur \o <<" ">> \o sentence ELSE sentence
  IN IF Len(testChunk) <= maxChunkSize
       THEN [chunks |-> chs, currentChunk |-> testChunk]
       ELSE [chunks |-> Append(chs, SubSeq(testChunk, 1, maxChunkSize)),
             currentChunk |-> SubSeq(testChunk, maxChunkSize + 1, Len(testChunk))]

\* The body of the loop over sentences: chunks and currentChunk after it.
AfterSentence(chs, cur, sentence) ==
  LET testChunk == IF cur # <<>> THEN cur \o <<" ">> \o sentence ELSE sentence
  IN IF Len(testChunk) <= maxChunkSize
       THEN [chunks |-> chs, currentChunk |-> testChunk]
     ELSE IF cur # <<>>
       THEN [chunks |-> Append(chs, cur), currentChunk |-> sentence]
     ELSE [chunks |-> Append(chs, sentence), currentChunk |-> cur]

\* Math.max(1, Math.floor((options.maxSentences || 10) / chunks.length))
ChunkBudget(given, chunkCount) ==
  Max(1, OrDefault(given, "maxSentences", 10) \div chunkCount)

\* { ...options, maxSentences: ... }
ChunkOptions(given, chunkCount) ==
  ("maxSentences" :> ChunkBudget(given, chunkCount)) @@ given

\* Array.prototype.flatMap over the results
RECURSIVE Flatten(_)
Flatten(seqs) == IF seqs = <<>> THEN <<>> ELSE Head(seqs) \o Flatten(Tail(seqs))

\* chunkSummaries.flatMap(result => result.sentences)
CombinedSentences(summaries) == Flatten([i \in DOMAIN summaries |-> summaries[i].sentences])

\* combinedText.length > maxChunkSize ||
\* combinedSentences.length > (options.maxSentences || 10)
NeedsFinalPass(summaries, given) ==
  LET combinedSentences == CombinedSentences(summaries)
  IN \/ Len(Join(combinedSentences, <<" ">>)) > maxChunkSize
     \/ Len(combinedSentences) > OrDefault(given, "maxSentences", 10)

\* The SummaryResult built from the chunk summaries; a division by 0 is kept
\* as the pair with denominator 0.
CombinedResult(sents, summaries, lang) ==
  LET combinedSentences == CombinedSentences(summaries)
  IN [ sentences |-> combinedSentences,
       summary |-> IF Len(combinedSentences) > 3
                     THEN formatAsBullets(combinedSentences)
                     ELSE formatAsParagraph(combinedSentences),
       originalSentenceCount |-> Len(sents),
       summarySentenceCount |-> Len(combinedSentences),
       compressionRatio |-> IF Len(sents) = 0 THEN <<Len(combinedSentences), 0>>
                            ELSE Rat(Len(combinedSentences), Len(sents)),
       processingTimeMs |-> SumInts([i \in DOMAIN summaries |-> summaries[i].processingTimeMs]),
       language |-> lang,
       scores |-> Flatten([i \in DOMAIN summaries |-> summaries[i].scores]) ]

\* ------------------------------------------------------------------ inputs

UnitHello == <<"H","e","l","l","o"," ","w","o","r","l","d",".">>
UnitFolks == <<"H","e","l","l","o"," ","f","o","l","k","s",".">>
UnitNight == <<"G","o","o","d"," ","n","i","g","h","t",".">>
UnitBlank == <<" ", " ">>
Units == {UnitHello, UnitFolks, UnitNight}

RECURSIVE SeqsUpTo(_, _)
SeqsUpTo(S, n) ==
  IF n = 0 THEN {<<>>}
  ELSE LET shorter == SeqsUpTo(S, n - 1)
       IN shorter \cup {Append(q, x) : q \in {q \in shorter : Len(q) = n - 1}, x \in S}

\* The texts summarize is called with: up to MaxUnits units joined by a space
\* (the empty text among them), and a text of whitespace only.
Texts == {Join(q, <<" ">>) : q \in SeqsUpTo(Units, MaxUnits)} \cup {UnitBlank}

Choice(name, values) == {NoOptions} \cup {name :> v : v \in values}

\* The options objects summarize is called with.
OptionsObjects ==
  { a @@ b @@ c @@ d @@ e :
      a \in Choice("maxSentences", {1, 2}),
      b \in Choice("maxChars", {5, 22}),
      c \in Choice("removeNearDuplicates", {FALSE}),
      d \in Choice("similarityThreshold", {0}),
      e \in Choice("convergenceThreshold", {1000000}) }

NoSelection == [selectedSentences |-> <<>>, selectedIndices |-> <<>>]

Init ==
  /\ text \in Texts
  /\ options \in OptionsObjects
  /\ intl \in BOOLEAN
  /\ sizeLimit = 0
  /\ pc = "idle"
  /\ language = ""
  /\ opts = NoOptions
  /\ sentences = <<>>
  /\ matrix = <<>>
  /\ scores = <<>>
  /\ newScores = <<>>
  /\ iter = 0
  /\ selection = NoSelection
  /\ outcome = None
  /\ calls = 0
  /\ previous = None
  /\ chunks = <<>>
  /\ currentChunk = <<>>
  /\ cursor = 0
  /\ chunkSummaries = <<>>
  /\ FreshWhisper

\* summarize, lines 504-529: language, defaulted options, segmentation
Begin ==
  /\ pc = "idle"
  /\ calls' = calls + 1
  /\ language' = LanguageOf(text, options)
  /\ opts' = DefaultedOptions(text, options)
  /\ sentences' = segment(text, SegmentationOptionsOf(opts'), intl)
  /\ pc' = "segmented"
  /\ UNCHANGED <<inputs, matrix, scores, newScores, iter, selection, outcome, previous>>
  /\ UNCHANGED chunking
  /\ UNCHANGED whisper

\* summarize, lines 531-542
ReturnEmpty ==
  /\ pc = "segmented"
  /\ Len(sentences) = 0
  /\ \E elapsed \in 0..MaxElapsed :
       outcome' = Returned(EmptyResult(language, elapsed))
  /\ pc' = "done"
  /\ UNCHANGED <<inputs, locals, calls, previous>>
  /\ UNCHANGED chunking
  /\ UNCHANGED whisper

\* summarize, lines 544-555
ReturnSingle ==
  /\ pc = "segmented"
  /\ Len(sentences) = 1
  /\ \E elapsed \in 0..MaxElapsed :
       outcome' = Returned(SingleResult(sentences, language, elapsed))
  /\ pc' = "done"
  /\ UNCHANGED <<inputs, locals, calls, previous>>
  /\ UNCHANGED chunking
  /\ UNCHANGED whisper

\* summarize, lines 557-573, and pagerank up to its loop
Rank ==
  /\ pc = "segmented"
  /\ Len(sentences) >= 2
  /\ matrix' = TransitionMatrix(sentences, language)
  /\ scores' = [i \in DOMAIN sentences |-> Rat(1, Len(sentences))]
  /\ newScores' = [i \in DOMAIN sentences |-> Zero]
  /\ iter' = 0
  /\ pc' = "pagerank"
  /\ UNCHANGED <<inputs, language, opts, sentences, selection, outcome, calls, previous>>
  /\ UNCHANGED chunking
  /\ UNCHANGED whisper

\* pagerank: one pass of the for loop, or leaving it
PagerankStep ==
  /\ pc = "pagerank"
  /\ IF iter < opts.maxIterations
       THEN /\ newScores' = NewScores(matrix, scores, opts.dampingFactor)
            /\ IF LessThanMicro(MaxDiff(newScores', scores), opts.convergenceThreshold)
                 THEN /\ pc' = "select"
                      /\ UNCHANGED <<scores, iter, outcome>>
                 ELSE IF SwapThrows
                   THEN /\ scores' = newScores'
                        /\ outcome' = Threw("TypeError")
                        /\ pc' = "done"
                        /\ UNCHANGED iter
                   ELSE /\ scores' = newScores'
                        /\ iter' = iter + 1
                        /\ pc' = "pagerank"
                        /\ UNCHANGED outcome
       ELSE /\ pc' = "select"
            /\ UNCHANGED <<scores, newScores, iter, outcome>>
  /\ UNCHANGED <<inputs, language, opts, sentences, matrix, selection, calls, previous>>
  /\ UNCHANGED chunking
  /\ UNCHANGED whisper

\* summarize, lines 580-599
Select ==
  /\ pc = "select"
  /\ selection' = selectSentences(sentences, scores, opts)
  /\ \E elapsed \in 0..MaxElapsed :
       outcome' = Returned(RankedResult(sentences, selection'.selectedSentences,
                                        scores, language, elapsed))
  /\ pc' = "done"
  /\ UNCHANGED <<inputs, language, opts, sentences, matrix, scores, newScores, iter,
                 calls, previous>>
  /\ UNCHANGED chunking
  /\ UNCHANGED whisper

\* The caller calls summarize once more with the same arguments.
CallAgain ==
  /\ pc = "done"
  /\ calls < 2
  /\ previous' = outcome
  /\ outcome' = None
  /\ pc' = "idle"
  /\ language' = ""
  /\ opts' = NoOptions
  /\ sentences' = <<>>
  /\ matrix' = <<>>
  /\ scores' = <<>>
  /\ newScores' = <<>>
  /\ iter' = 0
  /\ selection' = NoSelection
  /\ UNCHANGED <<inputs, calls>>
  /\ UNCHANGED chunking
  /\ UNCHANGED whisper

\* ------------------------------------------------------------ long texts

\* A sentence of one capitalised word of LongWordLength + 1 letters.
LongUnit(k) == <<Uppers[k]>> \o [i \in 1..LongWordLength |-> Lowers[k]] \o <<".">>
\* A sentence shorter than the minLength 10 of summarize.
UnitShort == <<"H","i"," ","a","l","l",".">>
UnitNumbered(k) == IF k = 0 THEN UnitShort ELSE LongUnit(k)

\* Texts of n sentences: all different, the second one short, the first two
\* equal, or the last equal to the first.
Shapes(n) ==
  { [k \in 1..n |-> k],
    [k \in 1..n |-> IF k = 2 THEN 0 ELSE k],
    [k \in 1..n |-> IF k = 1 THEN 1 ELSE k - 1],
    [k \in 1..n |-> IF k = n THEN 1 ELSE k] }

\* One text of MaxLongUnits - 1 different sentences, and the texts of
\* MaxLongUnits sentences.
LongTexts ==
  { Join([k \in DOMAIN shape |-> UnitNumbered(shape[k])], <<" ">>) :
      shape \in {[k \in 1..(MaxLongUnits - 1) |-> k]} \cup Shapes(MaxLongUnits) }

LongOptions ==
  { a @@ b :
      a \in Choice("maxSentences", {1, 3}),
      b \in Choice("maxChars", {1500}) }

InitLong ==
  /\ text \in LongTexts
  /\ options \in LongOptions
  /\ intl \in BOOLEAN
  /\ sizeLimit = 0
  /\ pc = "idle"
  /\ language = ""
  /\ opts = NoOptions
  /\ sentences = <<>>
  /\ matrix = <<>>
  /\ scores = <<>>
  /\ newScores = <<>>
  /\ iter = 0
  /\ selection = NoSelection
  /\ outcome = None
  /\ calls = 0
  /\ previous = None
  /\ chunks = <<>>
  /\ currentChunk = <<>>
  /\ cursor = 0
  /\ chunkSummaries = <<>>
  /\ FreshWhisper

ranking == <<opts, matrix, scores, newScores, iter, selection>>

\* summarizeLongText, lines 606-610: a text of at most maxChunkSize characters
\* is handed to summarize
Delegate ==
  /\ pc = "idle"
  /\ Len(text) <= maxChunkSize
  /\ calls' = calls + 1
  /\ \E ended \in {summarize(text, options, intl, 0)} :
       \E elapsed \in 0..MaxElapsed : outcome' = Timed(ended, elapsed)
  /\ pc' = "done"
  /\ UNCHANGED <<inputs, language, sentences, ranking, previous, chunking>>
  /\ UNCHANGED whisper

\* summarizeLongText, lines 612-618: language, segmentation, empty chunk list
LongBegin ==
  /\ pc = "idle"
  /\ Len(text) > maxChunkSize
  /\ calls' = calls + 1
  /\ language' = LanguageOf(text, options)
  /\ sentences' = segment(text, LongSegmentationOptions(language'), intl)
  /\ chunks' = <<>>
  /\ currentChunk' = <<>>
  /\ cursor' = 1
  /\ pc' = "chunking"
  /\ UNCHANGED <<inputs, ranking, outcome, previous, chunkSummaries>>
  /\ UNCHANGED whisper

\* summarizeLongText, lines 619-632: one pass of the loop over sentences
ChunkStep ==
  /\ pc = "chunking"
  /\ cursor <= Len(sentences)
  /\ LET after == AfterSentence(chunks, currentChunk, sentences[cursor])
     IN /\ chunks' = after.chunks
        /\ currentChunk' = after.currentChunk
  /\ cursor' = cursor + 1
  /\ UNCHANGED <<inputs, pc, language, sentences, ranking, outcome, calls, previous,
                 chunkSummaries>>
  /\ UNCHANGED whisper

\* summarizeLongText, lines 634-636: the chunk left over after the loop
ChunkFlush ==
  /\ pc = "chunking"
  /\ cursor > Len(sentences)
  /\ chunks' = IF currentChunk # <<>> THEN Append(chunks, currentChunk) ELSE chunks
  /\ pc' = "summarizing"
  /\ UNCHANGED <<inputs, language, sentences, ranking, outcome, calls, previous,
                 currentChunk, cursor, chunkSummaries>>
  /\ UNCHANGED whisper

\* summarizeLongText, lines 639-645: summarize for the next chunk; an
\* exception of summarize ends the call
SummarizeChunk ==
  /\ pc = "summarizing"
  /\ Len(chunkSummaries) < Len(chunks)
  /\ \E ended \in {summarize(chunks[Len(chunkSummaries) + 1],
                               ChunkOptions(options, Len(chunks)), intl, 0)} :
       IF ended.kind = "threw"
         THEN /\ outcome' = ended
              /\ pc' = "done"
              /\ UNCHANGED chunkSummaries
         ELSE /\ \E elapsed \in 0..MaxElapsed :
                   chunkSummaries' = Append(chunkSummaries, Timed(ended, elapsed).result)
              /\ UNCHANGED <<outcome, pc>>
  /\ UNCHANGED <<inputs, language, sentences, ranking, calls, previous,
                 chunks, currentChunk, cursor>>
  /\ UNCHANGED whisper

\* summarizeLongText, lines 647-654: the final pass over the combined text
Reduce ==
  /\ pc = "summarizing"
  /\ Len(chunkSummaries) = Len(chunks)
  /\ NeedsFinalPass(chunkSummaries, options)
  /\ \E ended \in {summarize(Join(CombinedSentences(chunkSummaries), <<" ">>),
                               options, intl, 0)} :
       \E elapsed \in 0..MaxElapsed : outcome' = Timed(ended, elapsed)
  /\ pc' = "done"
  /\ UNCHANGED <<inputs, language, sentences, ranking, calls, previous, chunking>>
  /\ UNCHANGED whisper

\* summarizeLongText, lines 656-668: the combined result
Combine ==
  /\ pc = "summarizing"
  /\ Len(chunkSummaries) = Len(chunks)
  /\ ~NeedsFinalPass(chunkSummaries, options)
  /\ outcome' = Returned(CombinedResult(sentences, chunkSummaries, language))
  /\ pc' = "done"
  /\ UNCHANGED <<inputs, language, sentences, ranking, calls, previous, chunking>>
  /\ UNCHANGED whisper

\* ------------------------------------------------ selectSentences on its own

\* Sentences of 8, 5 and 2 characters; the first two share two of three words.
CandidateLong == <<"a","a"," ","b","b"," ","c","c">>
CandidateShort == <<"a","a"," ","b","b">>
CandidateWord == <<"d","d">>
Candidates == {CandidateLong, CandidateShort, CandidateWord}

\* The scores a sentence can have.
CandidateScores == {Rat(1, 4), Rat(1, 2)}

\* The sentence lists selectSentences is called with, each with its scores.
ScoredLists ==
  UNION { [sents : [1..n -> Candidates], sc : [1..n -> CandidateScores]] :
            n \in 1..MaxCandidates }

\* The opts of summarize handed to selectSentences: every property is there,
\* and none that summarize defaults with || is 0.
SelectOptions ==
  { [ locale |-> "en", maxSentences |-> m, maxChars |-> c, dampingFactor |-> 85,
      maxIterations |-> 100, convergenceThreshold |-> 1, similarityThreshold |-> t,
      removeNearDuplicates |-> d, segmentationOptions |-> NoOptions ] :
      m \in {1, 2, 3}, c \in {4, 7, 10, 13}, t \in {5, 7}, d \in BOOLEAN }

InitSelect ==
  /\ text = <<>>
  /\ options = NoOptions
  /\ intl = FALSE
  /\ sizeLimit = 0
  /\ pc = "scored"
  /\ language = "en"
  /\ opts \in SelectOptions
  /\ \E list \in ScoredLists :
       /\ sentences = list.sents
       /\ scores = list.sc
  /\ matrix = <<>>
  /\ newScores = <<>>
  /\ iter = 0
  /\ selection = NoSelection
  /\ outcome = None
  /\ calls = 1
  /\ previous = None
  /\ chunks = <<>>
  /\ currentChunk = <<>>
  /\ cursor = 0
  /\ chunkSummaries = <<>>
  /\ FreshWhisper

\* summarize, line 581: the call of selectSentences
SelectAlone ==
  /\ pc = "scored"
  /\ selection' = selectSentences(sentences, scores, opts)
  /\ pc' = "selected"
  /\ UNCHANGED <<inputs, language, opts, sentences, matrix, scores, newScores, iter,
                 outcome, calls, previous, chunking>>
  /\ UNCHANGED whisper

\* ------------------------------------- segmentation and detection on their own

\* A single sentence shorter than the default minLength.
TextHi ==
  <<"H","i",".">>
\* An abbreviation followed by a lowercase letter,
TextDoctorLower ==
  <<"D","r","."," ","s","m","i","t","h"," ","c","a","m","e",".">>
\* by an uppercase letter,
TextDoctorUpper ==
  <<"D","r","."," ","S","m","i","t","h"," ","c","a","m","e",".">>
\* by a digit,
TextDoctorDigit ==
  <<"D","r","."," ","5"," ","c","a","m","e",".">>
\* and by punctuation.
TextDoctorQuote ==
  <<"D","r","."," ","\"","W","h","o","\""," ","c","a","m","e",".">>
\* Texts of 50 characters or more: English markers,
TextEnglish ==
  <<"T","h","e"," ","c","a","t"," ","i","s"," ","o","n"," ","t","h","e"," ",
    "m","a","t"," ","a","n","d"," ","t","h","e"," ","d","o","g"," ","w","a",
    "s"," ","i","n"," ","t","h","e"," ","y","a","r","d"," ","t","o","d","a",
    "y",".">>
\* Spanish markers,
TextSpanish ==
  <<"E","l"," ","g","a","t","o"," ","e","s"," ","d","e"," ","l","a"," ","c",
    "a","s","a"," ","y"," ","l","o","s"," ","p","e","r","r","o","s"," ","s",
    "o","n"," ","d","e","l"," ","b","a","r","r","i","o"," ","n","u","e","v",
    "o",".">>
\* French markers,
TextFrench ==
  <<"L","e"," ","c","h","a","t"," ","e","s","t"," ","d","a","n","s"," ","l",
    "e"," ","j","a","r","d","i","n"," ","a","v","e","c"," ","l","e","s"," ",
    "a","m","i","s"," ","q","u","i"," ","s","o","n","t"," ","d","u"," ","p",
    "a","y","s",".">>
\* as many English as Spanish markers,
TextEnglishSpanish ==
  <<"T","h","e"," ","c","a","t"," ","a","n","d"," ","e","l"," ","g","a","t",
    "o"," ","d","e","l"," ","b","a","r","r","i","o"," ","w","e","n","t"," ",
    "h","o","m","e"," ","t","o","g","e","t","h","e","r"," ","t","o","d","a",
    "y",".">>
\* as many English as French markers,
TextEnglishFrench ==
  <<"T","h","e"," ","c","a","t"," ","a","n","d"," ","l","e"," ","c","h","a",
    "t"," ","d","u"," ","j","a","r","d","i","n"," ","w","e","n","t"," ","h",
    "o","m","e"," ","t","o","g","e","t","h","e","r"," ","t","o","d","a","y",
    ".">>
\* no marker,
TextNoMarker ==
  <<"C","a","t","s"," ","c","h","a","s","e"," ","m","i","c","e"," ","a","r",
    "o","u","n","d"," ","b","i","g"," ","g","a","r","d","e","n","s"," ","e",
    "v","e","r","y"," ","s","i","n","g","l","e"," ","m","o","r","n","i","n",
    "g",".">>
\* and a text under 50 characters with Spanish markers.
TextShortSpanish ==
  <<"E","l"," ","g","a","t","o"," ","e","s"," ","d","e"," ","l","a"," ","c",
    "a","s","a",".">>

\* The texts segment, chunkBySentences and detectLanguage are called with.
SegmentTexts ==
  { <<>>, UnitBlank, TextHi, UnitHello, Join(<<UnitHello, UnitNight>>, <<" ">>),
    TextDoctorLower, TextDoctorUpper, TextDoctorDigit, TextDoctorQuote,
    TextEnglish, TextSpanish, TextFrench, TextEnglishSpanish, TextEnglishFrench,
    TextNoMarker, TextShortSpanish }

\* The SegmentationOptions objects they are called with.
SegmentOptions ==
  { a @@ b @@ c :
      a \in Choice("minLength", {0, 3, 13}),
      b \in Choice("maxLength", {12}),
      c \in Choice("cleanWhitespace", {TRUE}) }

InitSegment ==
  /\ text \in SegmentTexts
  /\ options \in SegmentOptions
  /\ intl \in BOOLEAN
  /\ sizeLimit \in {5, 12, 30}
  /\ pc = "idle"
  /\ language = ""
  /\ opts = NoOptions
  /\ sentences = <<>>
  /\ matrix = <<>>
  /\ scores = <<>>
  /\ newScores = <<>>
  /\ iter = 0
  /\ selection = NoSelection
  /\ outcome = None
  /\ calls = 0
  /\ previous = None
  /\ chunks = <<>>
  /\ currentChunk = <<>>
  /\ cursor = 0
  /\ chunkSummaries = <<>>
  /\ FreshWhisper

\* segmentWithRegex(text, 'en')
CallSegmentWithRegex ==
  /\ pc = "idle"
  /\ sentences' = segmentWithRegex(text)
  /\ pc' = "fragments"
  /\ UNCHANGED <<inputs, language, ranking, outcome, calls, previous, chunking>>
  /\ UNCHANGED whisper

\* segment(text, options)
CallSegment ==
  /\ pc = "idle"
  /\ sentences' = segment(text, options, intl)
  /\ pc' = "segmented"
  /\ UNCHANGED <<inputs, language, ranking, outcome, calls, previous, chunking>>
  /\ UNCHANGED whisper

\* detectLanguage(text)
CallDetectLanguage ==
  /\ pc = "idle"
  /\ language' = detectLanguage(text)
  /\ pc' = "detected"
  /\ UNCHANGED <<inputs, sentences, ranking, outcome, calls, previous, chunking>>
  /\ UNCHANGED whisper

\* chunkBySentences(text, maxChunkSize, options)
CallChunkBySentences ==
  /\ pc = "idle"
  /\ sentences' = segment(text, options, intl)
  /\ chunks' = chunkBySentences(text, sizeLimit, options, intl)
  /\ pc' = "chunked"
  /\ UNCHANGED <<inputs, language, ranking, outcome, calls, previous,
                 currentChunk, cursor, chunkSummaries>>
  /\ UNCHANGED whisper

\* ------------------------------------------------ WhisperAPI and its worker

\* The summarizer at rest while the WhisperAPI instance is exercised.
SummarizerIdle ==
  /\ text = <<>>
  /\ options = NoOptions
  /\ intl = FALSE
  /\ sizeLimit = 0
  /\ pc = "idle"
  /\ language = ""
  /\ opts = NoOptions
  /\ sentences = <<>>
  /\ matrix = <<>>
  /\ scores = <<>>
  /\ newScores = <<>>
  /\ iter = 0
  /\ selection = NoSelection
  /\ outcome = None
  /\ calls = 0
  /\ previous = None
  /\ chunks = <<>>
  /\ currentChunk = <<>>
  /\ cursor = 0
  /\ chunkSummaries = <<>>

\* new WhisperAPI()
InitWhisper ==
  /\ SummarizerIdle
  /\ FreshWhisper

\* The `ready` getter.
ready == isInitialized /\ worker # 0

\* The `busy` getter.
busy == isTranscribing

\* A message of the worker; id is the job of a 'result', 0 otherwise.
WorkerMessage(type, id) == [type |-> type, id |-> id]

\* What the worker posts while it handles message m. loadModule posts two
\* 'progress' messages and nothing else, with the mock module and with a real
\* one; loadModelURL ends with 'modelLoaded' on both of its paths; transcribe,
\* for a pcm of one window, posts its 'result' whether or not a cancel came in.
Replies(m) ==
  CASE m.type = "init" ->
         <<WorkerMessage("progress", 0), WorkerMessage("progress", 0)>>
    [] m.type = "loadModel" ->
         <<WorkerMessage("progress", 0), WorkerMessage("progress", 0),
           WorkerMessage("modelLoaded", 0)>>
    [] m.type = "transcribe" ->
         <<WorkerMessage("progress", 0), WorkerMessage("progress", 0),
           WorkerMessage("result", m.id)>>
    [] OTHER -> <<>>

\* The promise, listener and timer that sendMessageToWorker sets up.
Request(type, id) ==
  [type |-> type, job |-> id, worker |-> worker', state |-> "pending",
   result |-> 0, timer |-> TRUE]

\* handleMessage of request r on message m: 'modelLoaded' and 'result' resolve
\* the promise, whichever request and job the message belongs to; 'error'
\* rejects it; 'progress' and 'language' go to the progress handler.
handleMessage(r, m) ==
  IF r.state # "pending" \/ r.worker # worker THEN r
  ELSE CASE m.type \in {"modelLoaded", "result"} ->
              [r EXCEPT !.state = "resolved", !.result = m.id]
         [] m.type = "error" -> [r EXCEPT !.state = "rejected"]
         [] OTHER -> r

\* Request k was settled in this step.
SettledNow(after, k) ==
  requests[k].state = "pending" /\ after[k].state # "pending"

\* An entry of the log of calls.
ApiCall(call, id, result, afterInit) ==
  [call |-> call, job |-> id, outcome |-> result, result |-> 0,
   afterInit |-> afterInit]

\* init was called and the worker has handled every message it received and
\* the instance every message the worker posted.
InitHandled ==
  /\ \E k \in DOMAIN apiLog : apiLog[k].call = "init"
  /\ toWorker = <<>>
  /\ toMain = <<>>

\* The code that awaits the promises of sendMessageToWorker, run once the
\* requests have become `after`: _init goes on with 'loadModel' after 'init'
\* and sets isInitialized after 'loadModel', its catch clears initPromise;
\* the finally of transcribe clears isTranscribing. The model asked for is one
\* of AVAILABLE_MODELS.
Continue(after) ==
  LET done(type, state) ==
        \E k \in DOMAIN after :
          SettledNow(after, k) /\ after[k].type = type /\ after[k].state = state
      initDone == done("init", "resolved")
      loadDone == done("loadModel", "resolved")
      initFailed == done("init", "rejected") \/ done("loadModel", "rejected")
      ended(id) ==
        { k \in DOMAIN after :
            SettledNow(after, k) /\ after[k].type = "transcribe"
              /\ after[k].job = id }
  IN /\ worker' = worker
     /\ requests' = IF initDone THEN Append(after, Request("loadModel", 0))
                    ELSE after
     /\ toWorker' = IF initDone
                    THEN Append(toWorker, [type |-> "loadModel", id |-> 0])
                    ELSE toWorker
     /\ isInitialized' = (isInitialized \/ loadDone)
     /\ initPromise' = IF loadDone THEN "resolved"
                       ELSE IF initFailed THEN "null" ELSE initPromise
     /\ isTranscribing' =
          IF \E k \in DOMAIN after :
               SettledNow(after, k) /\ after[k].type = "transcribe"
          THEN FALSE ELSE isTranscribing
     /\ apiLog' =
          [k \in DOMAIN apiLog |->
             IF apiLog[k].outcome # "pending" THEN apiLog[k]
             ELSE IF apiLog[k].call = "init"
               THEN IF loadDone THEN [apiLog[k] EXCEPT !.outcome = "resolved"]
                    ELSE IF initFailed
                      THEN [apiLog[k] EXCEPT !.outcome = "rejected"]
                      ELSE apiLog[k]
               ELSE IF ended(apiLog[k].job) = {} THEN apiLog[k]
                    ELSE [apiLog[k] EXCEPT
                            !.outcome = after[The(ended(apiLog[k].job))].state,
                            !.result = after[The(ended(apiLog[k].job))].result]]

\* init(modelName): the pending or resolved promise is returned as it is;
\* otherwise _init runs up to its first await: a Worker is made in place of
\* the one there was and 'init' is sent to it.
CallInit ==
  /\ Len(apiLog) < MaxApiCalls
  /\ IF initPromise # "null"
     THEN /\ apiLog' = Append(apiLog, ApiCall("init", 0, initPromise, FALSE))
          /\ UNCHANGED <<worker, isInitialized, isTranscribing, initPromise,
                         requests, toWorker, toMain>>
     ELSE /\ worker' = worker + 1
          /\ isInitialized' = (isInitialized /\ worker = 0)
          /\ initPromise' = "pending"
          /\ requests' = Append(requests, Request("init", 0))
          /\ toWorker' = <<[type |-> "init", id |-> 0]>>
          /\ toMain' = <<>>
          /\ apiLog' = Append(apiLog, ApiCall("init", 0, "pending", FALSE))
          /\ UNCHANGED isTranscribing
  /\ UNCHANGED summarizer

\* ctx.onmessage of the worker, on the oldest message not yet handled.
WorkerHandles ==
  /\ toWorker # <<>>
  /\ toMain' = toMain \o Replies(Head(toWorker))
  /\ toWorker' = Tail(toWorker)
  /\ UNCHANGED <<worker, isInitialized, isTranscribing, initPromise, requests,
                 apiLog>>
  /\ UNCHANGED summarizer

\* The oldest message of the worker is dispatched to every listener that
\* sendMessageToWorker added to the worker.
MainReceives ==
  /\ toMain # <<>>
  /\ toMain' = Tail(toMain)
  /\ Continue([k \in DOMAIN requests |->
                 handleMessage(requests[k], Head(toMain))])
  /\ UNCHANGED summarizer

\* The timer of sendMessageToWorker, 300000 ms after the request: by then
\* the worker and the instance have handled every message there was. It
\* removes the listener and rejects the promise.
TimeoutFires ==
  /\ toWorker = <<>>
  /\ toMain = <<>>
  /\ \E k \in DOMAIN requests :
       /\ requests[k].timer
       /\ Continue([requests EXCEPT
                      ![k] = [@ EXCEPT !.timer = FALSE,
                                       !.state = IF @ = "pending"
                                                 THEN "rejected" ELSE @]])
  /\ UNCHANGED toMain
  /\ UNCHANGED summarizer

\* transcribe(pcm): throws when the instance is not initialized or is
\* transcribing; otherwise sends the job to the worker. The job id is the
\* position of the call.
CallTranscribe ==
  /\ Len(apiLog) < MaxApiCalls
  /\ IF ~isInitialized \/ worker = 0
     THEN /\ apiLog' = Append(apiLog, ApiCall("transcribe", Len(apiLog) + 1,
                                              "not initialized", InitHandled))
          /\ UNCHANGED <<worker, isTranscribing, requests, toWorker>>
     ELSE IF isTranscribing
     THEN /\ apiLog' = Append(apiLog, ApiCall("transcribe", Len(apiLog) + 1,
                                              "already transcribing", InitHandled))
          /\ UNCHANGED <<worker, isTranscribing, requests, toWorker>>
     ELSE /\ isTranscribing' = TRUE
          /\ worker' = worker
          /\ requests' = Append(requests, Request("transcribe", Len(apiLog) + 1))
          /\ toWorker' = Append(toWorker, [type |-> "transcribe",
                                           id |-> Len(apiLog) + 1])
          /\ apiLog' = Append(apiLog, ApiCall("transcribe", Len(apiLog) + 1,
                                              "pending", InitHandled))
  /\ UNCHANGED <<isInitialized, initPromise, toMain>>
  /\ UNCHANGED summarizer

\* cancel(): returns at once unless a transcription is under way; otherwise
\* sends 'cancel' and clears isTranscribing.
CallCancel ==
  /\ Len(apiLog) < MaxApiCalls
  /\ IF worker = 0 \/ ~isTranscribing
     THEN /\ apiLog' = Append(apiLog, ApiCall("cancel", 0, "nothing to cancel",
                                              InitHandled))
          /\ UNCHANGED <<isTranscribing, toWorker>>
     ELSE /\ toWorker' = Append(toWorker, [type |-> "cancel", id |-> 0])
          /\ isTranscribing' = FALSE
          /\ apiLog' = Append(apiLog, ApiCall("cancel", 0, "sent", InitHandled))
  /\ UNCHANGED <<worker, isInitialized, initPromise, requests, toMain>>
  /\ UNCHANGED summarizer

\* ------------------------------------------------ options at their edges

\* Texts of no sentence, one sentence, two unrelated sentences, three
\* sentences of which two share a word, and three of which two are equal.
EdgeTexts ==
  { <<>>,
    UnitNight,
    Join(<<UnitHello, UnitNight>>, <<" ">>),
    Join(<<UnitHello, UnitFolks, UnitNight>>, <<" ">>),
    Join(<<UnitNight, UnitNight, UnitHello>>, <<" ">>) }

\* Values of maxSentences below 1.
BelowOne == {0, -1, -2}

\* Options objects with a maxSentences below 1 and with the other numeric
\* options omitted, at the low end of their range, or inside it.
EdgeOptions ==
  { a @@ b @@ c @@ d @@ e :
      a \in {"maxSentences" :> v : v \in BelowOne},
      b \in Choice("dampingFactor", {0, 50}),
      c \in Choice("similarityThreshold", {0, 5}),
      d \in Choice("removeNearDuplicates", {FALSE, TRUE}),
      e \in Choice("maxIterations", {1, 2}) }

InitEdge ==
  /\ text \in EdgeTexts
  /\ options \in EdgeOptions
  /\ intl \in BOOLEAN
  /\ sizeLimit = 0
  /\ pc = "idle"
  /\ language = ""
  /\ opts = NoOptions
  /\ sentences = <<>>
  /\ matrix = <<>>
  /\ scores = <<>>
  /\ newScores = <<>>
  /\ iter = 0
  /\ selection = NoSelection
  /\ outcome = None
  /\ calls = 0
  /\ previous = None
  /\ chunks = <<>>
  /\ currentChunk = <<>>
  /\ cursor = 0
  /\ chunkSummaries = <<>>
  /\ FreshWhisper

\* The caller calls summarize once more with the same text and another
\* maxSentences below 1.
CallWithOtherCap ==
  /\ pc = "done"
  /\ calls < 2
  /\ \E v \in BelowOne \ {options["maxSentences"]} :
       options' = [options EXCEPT !["maxSentences"] = v]
  /\ previous' = outcome
  /\ outcome' = None
  /\ pc' = "idle"
  /\ language' = ""
  /\ opts' = NoOptions
  /\ sentences' = <<>>
  /\ matrix' = <<>>
  /\ scores' = <<>>
  /\ newScores' = <<>>
  /\ iter' = 0
  /\ selection' = NoSelection
  /\ UNCHANGED <<text, intl, sizeLimit, calls>>
  /\ UNCHANGED chunking
  /\ UNCHANGED whisper

\* ------------------------------------------------------------------ claims

HasReturned == outcome.kind = "returned"
Result == outcome.result
Supplied(name) == Has(options, name)

\* C1: for maxChars >= 1 the selected sentences joined with single spaces
\* are at most maxChars characters long, a single selected sentence included.
C1_JoinedWithinMaxChars ==
  (HasReturned /\ Supplied("maxChars") /\ options["maxChars"] >= 1)
    => Len(Join(Result.sentences, <<" ">>)) <= options["maxChars"]

\* C2: for maxSentences >= 1 the number of selected sentences is at most
\* maxSentences, with and without near-duplicate removal.
C2_CountWithinMaxSentences ==
  (HasReturned /\ Supplied("maxSentences") /\ options["maxSentences"] >= 1)
    => /\ Result.summarySentenceCount <= options["maxSentences"]
       /\ Len(Result.sentences) <= options["maxSentences"]

\* C2 witness: the cap cuts a selection short of the sentences that fit.
C2_Witness ==
  /\ HasReturned
  /\ Supplied("maxSentences")
  /\ Len(sentences) > options["maxSentences"]
  /\ Result.summarySentenceCount = options["maxSentences"]
  /\ ~Supplied("maxChars")
  /\ Len(sentences) >= 3

\* C3: the selected sentences are in document order: their indices in the
\* segmented sentence list are strictly increasing.
C3_DocumentOrder ==
  (HasReturned /\ Len(sentences) >= 2)
    => LET idx == selection.selectedIndices
       IN /\ Len(idx) = Len(Result.sentences)
          /\ \A k \in DOMAIN idx :
               /\ idx[k] \in DOMAIN sentences
               /\ Result.sentences[k] = sentences[idx[k]]
          /\ \A k \in 1..(Len(idx) - 1) : idx[k] < idx[k + 1]

\* C3 witness: a result with two selected sentences that are not neighbours.
C3_Witness ==
  /\ HasReturned
  /\ Len(sentences) >= 3
  /\ Len(selection.selectedIndices) = 2
  /\ selection.selectedIndices[2] > selection.selectedIndices[1] + 1

\* C4: 0 <= compressionRatio <= 1, compressionRatio is summarySentenceCount /
\* originalSentenceCount (0 when there is no sentence), and
\* summarySentenceCount is the number of sentences of the result.
C4_CompressionRatio ==
  HasReturned
    => LET r == Result.compressionRatio
       IN /\ Result.summarySentenceCount = Len(Result.sentences)
          /\ r[2] > 0
          /\ 0 <= r[1]
          /\ r[1] <= r[2]
          /\ r[1] * Result.originalSentenceCount = Result.summarySentenceCount * r[2]
          /\ (Result.originalSentenceCount = 0 => r = Zero)

\* C4 witness: a result that keeps some sentences and drops others.
C4_Witness ==
  /\ HasReturned
  /\ Result.summarySentenceCount = 2
  /\ Result.originalSentenceCount = 3

\* C5: for n >= 2 the score vector sums to 1 when pagerank starts and after
\* every pass of its loop, and so do the scores of the result.
C5_ScoresSumToOne ==
  /\ (pc = "pagerank" => RSum(scores) = One)
  /\ (pc \in {"select", "done"} /\ Len(sentences) >= 2 /\ iter < opts.maxIterations)
       => (RSum(scores) = One /\ RSum(newScores) = One)
  /\ (HasReturned /\ Result.originalSentenceCount >= 2) => RSum(Result.scores) = One

\* C5 witness: a pass of the loop has moved score between sentences, one of
\* which has no neighbour above the threshold.
C5_Witness ==
  /\ pc = "select"
  /\ newScores # scores
  /\ \E i \in DOMAIN matrix : \A j \in DOMAIN matrix : matrix[i][j] = Rat(1, Len(matrix))

IsBlank(s) == Trim(s) = <<>>

\* C6: for an empty or whitespace-only text summarize raises nothing and
\* returns no sentence, an empty summary, both counts 0, ratio 0, no scores.
C6_BlankText ==
  (IsBlank(text) /\ pc = "done")
    => /\ HasReturned
       /\ Result.sentences = <<>>
       /\ Result.summary = <<>>
       /\ Result.originalSentenceCount = 0
       /\ Result.summarySentenceCount = 0
       /\ Result.compressionRatio = Zero
       /\ Result.scores = <<>>

\* C6 witness: a call with a text of whitespace only has ended.
C6_Witness == text = UnitBlank /\ pc = "done" /\ HasReturned

\* C7: for a text of exactly one sentence the result has one sentence, the
\* scores [1.0], and a summary equal to the text character for character.
C7_SingleSentenceVerbatim ==
  (text \in Units /\ pc = "done")
    => /\ HasReturned
       /\ Result.summarySentenceCount = 1
       /\ Result.scores = <<One>>
       /\ Result.summary = text

\* similarityThreshold as the caller gave it, 0.7 when omitted (in tenths)
CallerThreshold ==
  IF Supplied("similarityThreshold") THEN options["similarityThreshold"] ELSE 7

TooSimilar(s1, s2) == RLess(Rat(CallerThreshold, 10), calculateStringSimilarity(s1, s2))

\* C8: with removeNearDuplicates true no two selected sentences have a
\* word-set Jaccard similarity above similarityThreshold.
C8_NoNearDuplicates ==
  (HasReturned /\ pc = "done" /\ opts.removeNearDuplicates = TRUE)
    => \A i, j \in DOMAIN Result.sentences :
         i < j => ~TooSimilar(Result.sentences[i], Result.sentences[j])

Tokens(i) == Range(tokenize(sentences[i], language))

\* sentences a and b share all content words and are near-duplicates,
\* sentence c shares no content word with them
DuplicatePairAndStranger(a, b, c) ==
  /\ {a, b, c} = {1, 2, 3}
  /\ Tokens(a) = Tokens(b)
  /\ Tokens(a) # {}
  /\ Tokens(c) # {}
  /\ Tokens(c) \cap Tokens(a) = {}
  /\ TooSimilar(sentences[a], sentences[b])

\* C9: for three sentences A, B, C with A and B near-duplicates and C
\* unrelated, maxSentences 2 and removeNearDuplicates true, summarize ends
\* normally and selects C and exactly one of A and B.
C9_DuplicatePairScenario ==
  \A a, b, c \in 1..3 :
    ( /\ pc = "done"
      /\ Len(sentences) = 3
      /\ DuplicatePairAndStranger(a, b, c)
      /\ opts.maxSentences = 2
      /\ opts.removeNearDuplicates = TRUE
      /\ ~Supplied("maxChars")
      /\ ~Supplied("convergenceThreshold") )
    => /\ HasReturned
       /\ Len(selection.selectedIndices) = 2
       /\ c \in Range(selection.selectedIndices)
       /\ (a \in Range(selection.selectedIndices)) # (b \in Range(selection.selectedIndices))

WithoutTime(r) == [f \in DOMAIN r \ {"processingTimeMs"} |-> r[f]]

Treatment(o) ==
  CASE o.kind = "threw" /\ o.error = "ValidationError" -> "rejected"
    [] o.kind = "threw" -> "crashed"
    [] o.kind = "returned" /\ o.result.sentences # <<>> -> "clamped"
    [] OTHER -> "emptied"

\* C11: two calls with the same text, which has a sentence, and two values of
\* maxSentences below 1 are treated alike: both summaries are non-empty (the
\* cap was clamped to at least 1) or both calls were rejected with a
\* validation error.
C11_MalformedCapConsistent ==
  (calls = 2 /\ pc = "done" /\ sentences # <<>> /\ Treatment(outcome) # "crashed")
    => /\ Treatment(outcome) \in {"clamped", "rejected"}
       /\ Treatment(previous) = Treatment(outcome)

DocumentedDefaults ==
  [ maxChars |-> 2000, dampingFactor |-> 85, maxIterations |-> 100,
    convergenceThreshold |-> 1, similarityThreshold |-> 7,
    removeNearDuplicates |-> TRUE ]

\* C12: each of maxChars, dampingFactor, maxIterations, convergenceThreshold,
\* similarityThreshold and removeNearDuplicates is its documented default when
\* the caller omitted it and the caller's value when it was supplied inside
\* the documented range, dampingFactor 0, similarityThreshold 0 and
\* removeNearDuplicates false included.
C12_DefaultsOnlyWhenOmitted ==
  pc # "idle"
    => \A name \in DOMAIN DocumentedDefaults :
         opts[name] = IF Supplied(name) THEN options[name]
                      ELSE DocumentedDefaults[name]

\* C18: for n >= 2 sentences and maxIterations >= 1 pagerank ends without an
\* exception and hands back n scores; it leaves its loop at the first pass
\* whose largest change is below convergenceThreshold or after maxIterations
\* passes, a pass that has not converged included.
C18_PagerankReturns ==
  (pc \in {"select", "done"} /\ Len(sentences) >= 2 /\ opts.maxIterations >= 1)
    => /\ outcome.kind # "threw"
       /\ Len(scores) = Len(sentences)
       /\ \/ iter = opts.maxIterations
          \/ LessThanMicro(MaxDiff(newScores, scores), opts.convergenceThreshold)

\* The TF-IDF vectors of the sentences of the running call.
Vectors ==
  LET sentenceTokens == [i \in DOMAIN sentences |-> tokenize(sentences[i], language)]
      idf == calculateIDF(sentenceTokens)
  IN [i \in DOMAIN sentences |-> createSentenceVector(sentenceTokens[i], idf)]

\* Thresholds buildSimilarityMatrix is looked at with, in tenths; the code
\* passes 0.1.
Thresholds == {0, 1, 2, 5, 10}

Ranked == pc \in {"pagerank", "select", "done"} /\ Len(sentences) >= 2

\* C19: buildSimilarityMatrix gives an n x n matrix with a zero diagonal; an
\* off-diagonal entry is the cosine similarity when that is strictly above the
\* threshold and 0 otherwise; entry (i,j) equals entry (j,i); every entry of
\* the row and column of a zero-magnitude vector is 0.
C19_SimilarityMatrix ==
  Ranked =>
    \A th \in Thresholds :
      LET v == Vectors
          n == Len(v)
          m == buildSimilarityMatrix(v, th)
      IN /\ DOMAIN m = 1..n
         /\ \A i \in 1..n : DOMAIN m[i] = 1..n
         /\ \A i \in 1..n : m[i][i] = 0
         /\ \A i, j \in 1..n :
              /\ m[i][j] = m[j][i]
              /\ m[i][j] >= 0
              /\ (i # j /\ m[i][j] # 0)
                   => /\ SimilarityAbove(v[i], v[j], th)
                      /\ m[i][j] = cosineSimilarity(v[i], v[j])
                      /\ m[i][j] >= th
              /\ (i # j /\ ~SimilarityAbove(v[i], v[j], th)) => m[i][j] = 0
              /\ (v[i].magnitudeSq = 0 \/ v[j].magnitudeSq = 0) => m[i][j] = 0

\* C19 witness: three sentences of which two are similar above 0.1 and at or
\* below 0.2, and the third is similar to neither.
C19_Witness ==
  /\ Ranked
  /\ Len(sentences) = 3
  /\ \E i, j, k \in 1..3 :
       /\ buildSimilarityMatrix(Vectors, 1)[i][j] = 1
       /\ buildSimilarityMatrix(Vectors, 2)[i][j] = 0
       /\ buildSimilarityMatrix(Vectors, 1)[i][k] = 0
       /\ k \notin {i, j}

\* C20: normalizeMatrix gives a matrix whose rows each sum to 1: a row of the
\* similarity matrix that sums to 0 becomes 1/n in every column, any other
\* row is divided by its sum and keeps its zero entries, the diagonal among
\* them.
C20_RowStochastic ==
  Ranked =>
    LET m == buildSimilarityMatrix(Vectors, 1)
        n == Len(m)
        t == normalizeMatrix(m)
    IN /\ matrix = t
       /\ \A i \in 1..n :
            /\ RSum(t[i]) = One
            /\ SumInts(m[i]) = 0 => \A j \in 1..n : t[i][j] = Rat(1, n)
            /\ SumInts(m[i]) # 0
                 => /\ t[i][i] = Zero
                    /\ \A j \in 1..n :
                         /\ t[i][j][1] * SumInts(m[i]) = m[i][j] * t[i][j][2]
                         /\ (m[i][j] = 0 => t[i][j] = Zero)

\* C20 witness: a matrix with a row that sums to 0 and a row that does not.
C20_Witness ==
  /\ Ranked
  /\ Len(sentences) = 3
  /\ \E i, j \in 1..3 :
       /\ SumInts(buildSimilarityMatrix(Vectors, 1)[i]) = 0
       /\ SumInts(buildSimilarityMatrix(Vectors, 1)[j]) > 0
       /\ matrix[i][i] = Rat(1, 3)
       /\ matrix[j][j] = Zero

\* ------------------------------------------------------------------ C13

\* C13: in every SummaryResult returned by summarize or summarizeLongText the
\* scores array is index-aligned to the originally segmented sentence list:
\* it has exactly originalSentenceCount entries, one for each segmented
\* sentence in order.
C13_ScoresAligned ==
  HasReturned => Len(Result.scores) = Result.originalSentenceCount

\* ------------------------------------------------------------------ C14

\* C14: for every text longer than 8000 characters the result of
\* summarizeLongText has joined selected sentences no longer than the
\* caller's maxChars and no more sentences than the caller's maxSentences,
\* the final reduction pass running whenever the concatenation of the chunk
\* summaries is over either budget.
C14_WithinCallerBudget ==
  (HasReturned /\ Len(text) > maxChunkSize)
    => /\ Supplied("maxChars")
            => Len(Join(Result.sentences, <<" ">>)) <= options["maxChars"]
       /\ Supplied("maxSentences")
            => Len(Result.sentences) <= options["maxSentences"]

\* ------------------------------------------------------------------ C15

\* Math.ceil(a / b) for a >= 0 and b > 0
CeilDiv(a, b) == (a + b - 1) \div b

\* The chunks are complete and the per-chunk calls of summarize are under way
\* or over.
Chunked == pc = "summarizing" \/ (pc = "done" /\ chunks # <<>>)

\* C15: in summarizeLongText each chunk is summarized with a sentence budget
\* of ceil(requestedMax / chunkCount), requestedMax being the caller's
\* maxSentences and chunkCount the number of chunks.
C15_BudgetIsCeiling ==
  (Chunked /\ Supplied("maxSentences"))
    => ChunkOptions(options, Len(chunks))["maxSentences"]
         = CeilDiv(options["maxSentences"], Len(chunks))

\* ------------------------------------------------------------------ C16

\* The chunks from the j-th on are the space-joined runs of consecutive
\* sentences that begin at sentence from and end at the last sentence.
RECURSIVE Covers(_, _, _, _)
Covers(chs, sents, j, from) ==
  IF j > Len(chs) THEN from = Len(sents) + 1
  ELSE \E to \in from..Len(sents) :
         /\ chs[j] = Join(SubSeq(sents, from, to), <<" ">>)
         /\ Covers(chs, sents, j + 1, to + 1)

\* C16: for a text over the 8000-character threshold each chunk is the
\* space-joined concatenation of consecutive whole segmented sentences, no
\* chunk is longer than 8000 characters, and the chunks in order contain
\* every segmented sentence exactly once in original order.
C16_ChunksOfWholeSentences ==
  Chunked
    => /\ Covers(chunks, sentences, 1, 1)
       /\ \A j \in DOMAIN chunks : Len(chunks[j]) <= maxChunkSize

\* C16 witness: a text over the threshold was cut into more than one chunk,
\* the first of several sentences.
C16_Witness ==
  /\ pc = "summarizing"
  /\ Len(text) > maxChunkSize
  /\ Len(chunks) >= 2
  /\ \E to \in 2..Len(sentences) :
       chunks[1] = Join(SubSeq(sentences, 1, to), <<" ">>)

\* ------------------------------------------------------------------ C17

\* What summarize returns for the present text and options when it is the
\* only call ever made.
SoleCall == summarize(text, options, intl, 0)

\* The call that has ended, ended as the only call ever made would have.
AsSoleCall ==
  pc = "done"
    => /\ outcome.kind = SoleCall.kind
       /\ HasReturned => WithoutTime(Result) = WithoutTime(SoleCall.result)
       /\ ~HasReturned => outcome = SoleCall

Precedes(sc, i, j) ==
  \/ RLess(sc[j], sc[i])
  \/ ~RLess(sc[i], sc[j]) /\ i < j

\* The indices of the sentences in that order.
WalkOrder(sc) ==
  [p \in DOMAIN sc |->
     CHOOSE i \in DOMAIN sc :
       Cardinality({j \in DOMAIN sc : Precedes(sc, j, i)}) = p - 1]

\* Sentence i is a near-duplicate of an admitted sentence.
NearDuplicate(sents, i, admitted, thresholdTenths) ==
  \E a \in admitted :
    RLess(Rat(thresholdTenths, 10), calculateStringSimilarity(sents[i], sents[a]))

\* The sum of the lengths of the sentences with the given indices.
RECURSIVE TotalLength(_, _)
TotalLength(sents, indices) ==
  IF indices = {} THEN 0
  ELSE LET i == CHOOSE i \in indices : TRUE
       IN Len(sents[i]) + TotalLength(sents, indices \ {i})

\* The set of indices first-fit admits, walking order from position k on.
RECURSIVE FirstFit(_, _, _, _, _)
FirstFit(sents, order, k, admitted, o) ==
  IF k > Len(order) THEN admitted
  ELSE LET i == order[k]
           admit == /\ TotalLength(sents, admitted) + Len(sents[i]) <= o.maxChars
                    /\ Cardinality(admitted) < o.maxSentences
                    /\ ~(o.removeNearDuplicates
                          /\ NearDuplicate(sents, i, admitted, o.similarityThreshold))
       IN FirstFit(sents, order, k + 1, IF admit THEN admitted \cup {i} ELSE admitted, o)

\* The indices of a selection, as a set.
Selected == Range(selection.selectedIndices)

\* C21: selectSentences computes exactly the first-fit greedy selection:
\* walking the sentences in descending score order (equal scores in original
\* order), a candidate is admitted if and only if the running character total
\* plus its length does not exceed maxChars, fewer than maxSentences are
\* admitted, and (with dedup on) it is not a near-duplicate of an admitted
\* sentence; a skipped candidate adds nothing to the budgets and is never
\* reconsidered.
C21_FirstFitGreedy ==
  pc = "selected"
    => /\ Selected = FirstFit(sentences, WalkOrder(scores), 1, {}, opts)
       /\ Len(selection.selectedIndices) = Cardinality(Selected)
       /\ \A k \in DOMAIN selection.selectedIndices :
            selection.selectedSentences[k] = sentences[selection.selectedIndices[k]]

\* C21 witness: with dedup on, the sentence of the highest score did not fit
\* maxChars, one after it was admitted, a duplicate of that one was skipped,
\* and a sentence after the duplicate was admitted.
C21_Witness ==
  /\ pc = "selected"
  /\ opts.removeNearDuplicates
  /\ Len(sentences) = 3
  /\ LET order == WalkOrder(scores)
     IN \E p, q \in DOMAIN order :
          /\ p < q
          /\ order[p] \notin Selected
          /\ Len(sentences[order[p]]) > opts.maxChars
          /\ order[q] \in Selected
  /\ \E i \in DOMAIN sentences \ Selected :
       /\ NearDuplicate(sentences, i, Selected, opts.similarityThreshold)
       /\ Len(sentences[i]) <= opts.maxChars

\* ------------------------------------------------------------------ C27

\* C27: the selection returned by selectSentences is maximal: for
\* maxSentences >= 1 and maxChars >= 1, if fewer than maxSentences sentences
\* were selected then every unselected sentence either would make the summed
\* length of the selection exceed maxChars or (with dedup on) is a
\* near-duplicate of a selected sentence; in particular the selection is not
\* empty whenever some sentence has length <= maxChars.
C27_SelectionMaximal ==
  (pc = "selected" /\ opts.maxSentences >= 1 /\ opts.maxChars >= 1)
    => /\ Cardinality(Selected) < opts.maxSentences
            => \A i \in DOMAIN sentences \ Selected :
                 \/ TotalLength(sentences, Selected) + Len(sentences[i]) > opts.maxChars
                 \/ /\ opts.removeNearDuplicates
                    /\ NearDuplicate(sentences, i, Selected, opts.similarityThreshold)
       /\ (\E i \in DOMAIN sentences : Len(sentences[i]) <= opts.maxChars)
            => Selected # {}

\* C27 witness: fewer than maxSentences sentences were selected, one sentence
\* was left out because it would not fit and another because it is a
\* near-duplicate that would have fitted.
C27_Witness ==
  /\ pc = "selected"
  /\ Selected # {}
  /\ Cardinality(Selected) < opts.maxSentences
  /\ opts.removeNearDuplicates
  /\ \E i, j \in DOMAIN sentences \ Selected :
       /\ TotalLength(sentences, Selected) + Len(sentences[i]) > opts.maxChars
       /\ ~NearDuplicate(sentences, i, Selected, opts.similarityThreshold)
       /\ TotalLength(sentences, Selected) + Len(sentences[j]) <= opts.maxChars
       /\ NearDuplicate(sentences, j, Selected, opts.similarityThreshold)

\* ------------------------------------------------------------------ C22

\* The fragments the text is split into at punctuation boundaries.
Fragments(txt) == SelectSeq(TrimAll(SplitPattern(txt)), NonEmpty)

LowerCase == {Lowers[i] : i \in DOMAIN Lowers}

\* The fragments from the i-th on, two adjacent ones merged if and only if
\* the last word of the first is an abbreviation and the second begins with a
\* lowercase letter.
RECURSIVE MergedAtLowercase(_, _, _)
MergedAtLowercase(frags, i, acc) ==
  IF i > Len(frags) THEN acc
  ELSE IF /\ i < Len(frags)
          /\ LastWord(frags[i]) \in ABBREVIATIONS
          /\ frags[i + 1][1] \in LowerCase
    THEN MergedAtLowercase(frags, i + 2,
                           Append(acc, frags[i] \o <<".", " ">> \o frags[i + 1]))
    ELSE MergedAtLowercase(frags, i + 1, Append(acc, frags[i]))

\* C22: in the regex fallback segmenter two adjacent fragments are re-merged
\* into one sentence if and only if the last word of the first is in the
\* abbreviation set and the second begins with a lowercase letter; a fragment
\* that begins with an uppercase letter, a digit or punctuation stays a
\* separate sentence.
C22_MergeOnlyAtLowercase ==
  pc = "fragments" => sentences = MergedAtLowercase(Fragments(text), 1, <<>>)

\* ------------------------------------------------------------------ C23

\* The text is one sentence: its only terminators are at its end.
IsSingleSentence(txt) ==
  /\ Trim(txt) # <<>>
  /\ LET t == Trim(txt)
         first == Find(t, 1, Terminators)
     IN SkipWhile(t, first, Terminators) > Len(t)

\* The length bound of the call: the caller's wherever one is supplied.
LengthBound(name, default) ==
  IF Supplied(name) THEN options[name] ELSE default

\* C23: segment returns the empty sequence for empty or whitespace-only text;
\* otherwise every sentence it returns has a length of at least minLength and
\* at most maxLength (defaults 5 and 1000, a caller-supplied bound being the
\* one applied), and an input made of a single sentence survives filtering
\* as exactly one returned sentence.
C23_SegmentBounds ==
  pc = "segmented"
    => /\ Trim(text) = <<>> => sentences = <<>>
       /\ \A i \in DOMAIN sentences :
            /\ Len(sentences[i]) >= LengthBound("minLength", 5)
            /\ Len(sentences[i]) <= LengthBound("maxLength", 1000)
       /\ IsSingleSentence(text) => Len(sentences) = 1

\* ------------------------------------------------------------------ C24

\* The first 100 whitespace-separated lowercased words of the text.
FirstWords(txt) ==
  LET words == SplitWhitespace(ToLowerCase(txt))
  IN SubSeq(words, 1, Min(Len(words), 100))

\* The number of marker words of each language among them.
MarkerCount(txt) ==
  LET words == FirstWords(txt)
      Count(set) == Cardinality({i \in DOMAIN words : words[i] \in set})
  IN [en |-> Count(INDICATORS_EN), es |-> Count(INDICATORS_ES),
      fr |-> Count(INDICATORS_FR)]

\* C24: detectLanguage returns one of 'en', 'es', 'fr': 'en' for a text
\* shorter than 50 characters or without marker word, and otherwise a
\* language whose marker-word count over the first 100 words is the highest,
\* English whenever English is among the languages with the highest count.
C24_DetectLanguage ==
  pc = "detected"
    => LET count == MarkerCount(text)
           highest == Max(count.en, Max(count.es, count.fr))
       IN /\ language \in {"en", "es", "fr"}
          /\ (Len(text) < 50 \/ highest = 0) => language = "en"
          /\ (Len(text) >= 50 /\ highest > 0)
               => /\ count[language] = highest
                  /\ count.en = highest => language = "en"

\* ------------------------------------------------------------------ C25

\* The characters of the texts other than whitespace, in order.
Inked(texts) == SelectSeq(Flatten(texts), LAMBDA c : ~IsWhitespace(c))

\* C25: for every maxChunkSize >= 1 no chunk returned by chunkBySentences is
\* longer than maxChunkSize, a single sentence longer than maxChunkSize being
\* split, and every segmented sentence is in exactly one chunk, in original
\* order.
C25_ChunksWithinSize ==
  (pc = "chunked" /\ sizeLimit >= 1)
    => /\ \A j \in DOMAIN chunks : Len(chunks[j]) <= sizeLimit
       /\ Inked(chunks) = Inked(sentences)

\* ------------------------------------------------------------------ C28

\* C28: on both return paths of summarizeLongText, the chunk summaries
\* returned directly and the final reduction pass, originalSentenceCount is
\* the number of sentences segmented from the full input text and
\* compressionRatio is summarySentenceCount divided by that number.
C28_CountsOfFullText ==
  (HasReturned /\ Len(text) > maxChunkSize /\ sentences # <<>>)
    => /\ Result.originalSentenceCount = Len(sentences)
       /\ Result.compressionRatio = Rat(Result.summarySentenceCount, Len(sentences))

\* ------------------------------------------------------------------ C29

\* removeNearDuplicates is true for the call: supplied as true, or defaulted.
DedupOn == Supplied("removeNearDuplicates") => options["removeNearDuplicates"] = TRUE

\* C29: with removeNearDuplicates true no two sentences in a result returned
\* by summarizeLongText have a word-set Jaccard similarity above
\* similarityThreshold, two sentences selected from different chunks and
\* returned without a final pass included.
C29_NoNearDuplicatesAcrossChunks ==
  (HasReturned /\ Len(text) > maxChunkSize /\ DedupOn)
    => \A i, j \in DOMAIN Result.sentences :
         i < j => ~TooSimilar(Result.sentences[i], Result.sentences[j])

\* ------------------------------------------------------------------ C26

\* The first call on the instance is init.
InitCalledFirst == apiLog # <<>> /\ apiLog[1].call = "init"

\* The promise of that call is resolved and `ready` is true.
InitResolvedReady ==
  InitCalledFirst /\ apiLog[1].outcome = "resolved" /\ ready

\* C26: once init was called on a fresh instance, with every message
\* handled by the worker and dispatched to the instance, the promise of
\* init is eventually resolved and `ready` is true.
C26_InitResolves ==
  InitCalledFirst ~> InitResolvedReady

\* ------------------------------------------------------------------ C30

\* The transcribe calls made once init was called and every message handled.
TranscribeCalls ==
  { k \in DOMAIN apiLog : apiLog[k].call = "transcribe" /\ apiLog[k].afterInit }

\* The transcribe requests whose listener is still on the worker.
JobsAwaited ==
  { k \in DOMAIN requests :
      requests[k].type = "transcribe" /\ requests[k].state = "pending"
        /\ requests[k].worker = worker }

Next ==
  \/ Begin
  \/ ReturnEmpty
  \/ ReturnSingle
  \/ Rank
  \/ PagerankStep
  \/ Select
  \/ CallAgain

Spec == Init /\ [][Next]_vars

NextEdge ==
  \/ Begin
  \/ ReturnEmpty
  \/ ReturnSingle
  \/ Rank
  \/ PagerankStep
  \/ Select
  \/ CallWithOtherCap

SpecEdge == InitEdge /\ [][NextEdge]_vars

NextLong ==
  \/ Delegate
  \/ LongBegin
  \/ ChunkStep
  \/ ChunkFlush
  \/ SummarizeChunk
  \/ Reduce
  \/ Combine

SpecLong == InitLong /\ [][NextLong]_vars
NextSelect == SelectAlone

SpecSelect == InitSelect /\ [][NextSelect]_vars
NextSegment ==
  \/ CallSegmentWithRegex
  \/ CallSegment
  \/ CallDetectLanguage
  \/ CallChunkBySentences

SpecSegment == InitSegment /\ [][NextSegment]_vars

NextWhisper ==
  \/ CallInit
  \/ WorkerHandles
  \/ MainReceives
  \/ TimeoutFires
  \/ CallTranscribe
  \/ CallCancel

\* The worker handles every message it receives, the browser dispatches every
\* message the worker posts, and a timer that was set fires.
SpecWhisper ==
  /\ InitWhisper
  /\ [][NextWhisper]_vars
  /\ WF_vars(WorkerHandles)
  /\ WF_vars(MainReceives)
  /\ WF_vars(TimeoutFires)
====
